---------------------------- MODULE Spec2Model ----------------------------
(***************************************************************************)
(* Model of enoki/array_base.h: the element-access base (ArrayBase), the   *)
(* masked-assign proxy (detail::MaskWrapper), the masked-operator          *)
(* fallbacks, the generic fallbacks (rotate, NOT, negate, fused multiply,  *)
(* reductions, shuffle, prefetch/gather/scatter/transform, compressing     *)
(* store, resize), the size decomposition, the tests isnan_, isinf_ and    *)
(* isfinite_, the path selection of the transcendental functions and the   *)
(* masks, blends and signs of the approximate asin_, acos_, log_, sin_,    *)
(* cos_, sincos_, sinh_, cosh_ and sincosh_ of StaticArrayBase.            *)
(*                                                                         *)
(* A vector is a function from lane index to lane value.  Lanes of an      *)
(* unsigned or floating scalar are held as their W-bit pattern (0..2^W-1,  *)
(* the sign bit of a float being the top bit); lanes of a signed scalar    *)
(* are held as the two's-complement value (-2^(W-1)..2^(W-1)-1), so that   *)
(* the signed/unsigned conversions of the code are real conversions.       *)
(***************************************************************************)
EXTENDS Integers, FiniteSets, Sequences, TLC

\* ------------------------------------------------------------------------
\* Bounds
\* ------------------------------------------------------------------------

\* Number of lanes of the vector type under test (template parameter Size_).
Size == 2

\* log2 of the scalar bit width; the width itself is 8 * sizeof(Scalar),
\* always a power of two.
LogW == 2

\* Number of proxy statements a run of the proxy specification executes.
MaxOps == 2

\* ------------------------------------------------------------------------
\* Scalar types
\* ------------------------------------------------------------------------

\* 8 * sizeof(Scalar)
W == 2 ^ LogW

\* Width of size_t in bits: at least as wide as any scalar.
SizeTBits == 2 * W

Pow2W == 2 ^ W

Lanes == 0 .. (Size - 1)

Kinds == {"uint", "int", "float"}

IntKinds == {"uint", "int"}

\* All values of a scalar of the given kind.
LaneValues(k) ==
    IF k = "int" THEN (-(2 ^ (W - 1))) .. (2 ^ (W - 1) - 1) ELSE 0 .. (Pow2W - 1)

\* Conversion of a W-bit two's complement value to the unsigned type of the
\* same width (value modulo 2^W).
ToUnsigned(x) == x % Pow2W

\* Conversion of an unsigned W-bit value to the signed type of the same width.
ToSigned(u) == IF u >= 2 ^ (W - 1) THEN u - Pow2W ELSE u

\* Object representation (bit pattern) of a lane value.
Pattern(k, x) == IF k = "int" THEN ToUnsigned(x) ELSE x

\* Lane value with the given bit pattern.
FromPattern(k, p) == IF k = "int" THEN ToSigned(p) ELSE p

\* Result of an integer expression stored into a lane of the given kind.
Wrap(k, n) == FromPattern(k, n % Pow2W)

\* Boundary lane values used as inputs: zero, one, the sign bit alone
\* (minimum signed value) and all ones (-1).
SampleLanes(k) == {FromPattern(k, p) : p \in {0, 1, 2 ^ (W - 1), Pow2W - 1}}

SampleVecs(k) == [Lanes -> SampleLanes(k)]

\* Lane values stored and read back by the element-access runs.
AccessLanes(k) == {FromPattern(k, p) : p \in {0, 1, Pow2W - 1}}

AccessVecs(k) == [Lanes -> AccessLanes(k)]

\* ------------------------------------------------------------------------
\* State
\* ------------------------------------------------------------------------

VARIABLES
    kind,        \* Scalar of the array type: "uint", "int" or "float"
    rangeCheck,  \* build has !NDEBUG && !ENOKI_DISABLE_RANGE_CHECK
    approx,      \* template parameter Approx_ of the array type
    shape,       \* nesting depth of a: 1 (array of scalars), 2 (array of arrays)
    mem,         \* the memory region gather, scatter and transform address
    a,           \* a vector instance
    b,           \* a second vector instance
    e,           \* the vector used as value operand of the proxy statements
    m,           \* the mask object the proxy statements are subscripted with
    proxy,       \* the live MaskWrapper, or NoProxy
    err,         \* outcome of the last operation: NoError or an exception
    ret,         \* value the last operation returned to its caller (0: none)
    last,        \* the last operation, its arguments and the state before it
    written,     \* per lane of a: the value last written to it
    ub,          \* the run has executed undefined behaviour
    nops         \* number of proxy statements executed

vars == <<kind, rangeCheck, approx, shape, mem, a, b, e, m, proxy, err, ret, last,
          written, ub, nops>>

NoError == [type |-> "none"]

NoProxy == [d |-> "none"]

NoOp == [op |-> "init"]

\* ------------------------------------------------------------------------
\* Element access (ArrayBase / StaticArrayBase)
\* ------------------------------------------------------------------------

\* StaticArrayBase::size(): the compile-time lane count.
size(v) == Size

\* Derived::coeff(i) for an index inside the storage.
coeff(v, i) == v[i]

\* std::out_of_range thrown by operator[]; the message is built from the
\* attempted index and from size().
OutOfRange(v, i) == [type |-> "out_of_range", index |-> i, size |-> size(v)]

\* A range check that lets the index one past the end through.
RangeCheckFails_Gt(v, i) == rangeCheck /\ i > size(v)

\* The range check at the head of both operator[] overloads.
RangeCheckFails(v, i) == rangeCheck /\ i >= size(v)

\* Derived(value): every lane is the scalar.
Broadcast(x) == [i \in Lanes |-> x]

\* operator=(const StaticArrayBase &): lane by lane copy.
AssignArray(src) == [i \in Lanes |-> coeff(src, i)]

\* A store through the reference returned by a wrong lane of operator[].
IndexStore_OffByOne(v, i, x) == [v EXCEPT ![(i + 1) % Size] = x]

\* v[i] = x for an index inside the storage: operator[] returns a reference
\* to coeff(i) and the assignment stores through it.
IndexStore(v, i, x) == [v EXCEPT ![i] = x]

\* Indices passed to operator[]: all lanes and two indices past the end.
IndexInputs == 0 .. (Size + 1)

\* v[i] = x through the non-const operator[].
IndexWrite(i, x) ==
    /\ ~ub
    /\ last' = [op |-> "write", i |-> i, x |-> x, old |-> a]
    /\ IF RangeCheckFails(a, i)
       THEN /\ err' = OutOfRange(a, i)
            /\ UNCHANGED <<a, written, ub>>
       ELSE IF i < Size
       THEN /\ a' = IndexStore(a, i, x)
            /\ written' = [written EXCEPT ![i] = x]
            /\ err' = NoError
            /\ UNCHANGED ub
       ELSE \* store through a reference past the end of the storage
            /\ ub' = TRUE
            /\ a' \in AccessVecs(kind)
            /\ err' \in {NoError, [type |-> "crash"]}
            /\ UNCHANGED written
    /\ ret' = 0
    /\ UNCHANGED <<kind, rangeCheck, approx, shape, mem, b, e, m, proxy, nops>>

\* x = v[i] through the const operator[].
IndexRead(i) ==
    /\ ~ub
    /\ last' = [op |-> "read", i |-> i, x |-> 0, old |-> a]
    /\ IF RangeCheckFails(a, i)
       THEN /\ err' = OutOfRange(a, i)
            /\ ret' = 0
            /\ UNCHANGED ub
       ELSE IF i < Size
       THEN /\ ret' = coeff(a, i)
            /\ err' = NoError
            /\ UNCHANGED ub
       ELSE \* load through a reference past the end of the storage
            /\ ub' = TRUE
            /\ ret' \in AccessLanes(kind)
            /\ err' \in {NoError, [type |-> "crash"]}
    /\ UNCHANGED <<kind, rangeCheck, approx, shape, mem, a, b, e, m, proxy, written, nops>>

\* v.size()
SizeQuery ==
    /\ ~ub
    /\ last' = [op |-> "size", i |-> 0, x |-> 0, old |-> a]
    /\ ret' = size(a)
    /\ err' = NoError
    /\ UNCHANGED <<kind, rangeCheck, approx, shape, mem, a, b, e, m, proxy, written, ub, nops>>

\* v = x: operator=(Scalar), assignment of Derived(value).
AssignScalar(x) ==
    /\ ~ub
    /\ last' = [op |-> "assign", i |-> 0, x |-> x, old |-> a]
    /\ a' = AssignArray(Broadcast(x))
    /\ written' = Broadcast(x)
    /\ err' = NoError
    /\ ret' = 0
    /\ UNCHANGED <<kind, rangeCheck, approx, shape, mem, b, e, m, proxy, ub, nops>>

InitAccess ==
    /\ kind \in Kinds
    /\ rangeCheck \in BOOLEAN
    /\ a \in AccessVecs(kind)
    /\ b = a
    /\ e = a
    /\ m = [i \in Lanes |-> TRUE]
    /\ proxy = NoProxy
    /\ err = NoError
    /\ ret = 0
    /\ last = NoOp
    /\ written = a
    /\ ub = FALSE
    /\ nops = 0
    /\ approx = FALSE
    /\ shape = 1
    /\ mem = <<>>

NextAccess ==
    \/ \E i \in IndexInputs, x \in AccessLanes(kind) : IndexWrite(i, x)
    \/ \E i \in IndexInputs : IndexRead(i)
    \/ SizeQuery
    \/ \E x \in AccessLanes(kind) : AssignScalar(x)

SpecAccess == InitAccess /\ [][NextAccess]_vars

\* ------------------------------------------------------------------------
\* C1, C2: element access
\* ------------------------------------------------------------------------

IsAccess == last.op \in {"write", "read"}

\* C1: size() always returns the lane count N; reading lane i (0 <= i < N)
\* returns the value most recently written to lane i; a write to lane i
\* changes no other lane.
C1_SizeAndLastWritten ==
    ~ub =>
        /\ DOMAIN a = 0 .. (Size - 1)
        /\ size(a) = Cardinality(DOMAIN a)
        /\ (last.op = "size" => ret = Size)
        /\ \A i \in Lanes : coeff(a, i) = written[i]
        /\ (last.op = "read" /\ err = NoError) => ret = written[last.i]
        /\ (last.op = "write" /\ err = NoError) =>
              /\ a[last.i] = last.x
              /\ \A j \in Lanes : j # last.i => a[j] = last.old[j]

\* A read of lane 0 that returns a value written to lane 0 after a different
\* value was written to another lane.
C1_Witness ==
    /\ ~ub
    /\ last.op = "read"
    /\ last.i = 0
    /\ err = NoError
    /\ ret = written[0]
    /\ \E j \in Lanes : j # 0 /\ written[j] # ret

\* C2: with range checking enabled operator[](i) throws out_of_range carrying
\* i and size() exactly when i >= size(); it never fails for i < size(); a
\* failed access leaves every lane unchanged.
C2_RangeCheck ==
    (rangeCheck /\ IsAccess) =>
        /\ (err = [type |-> "out_of_range", index |-> last.i, size |-> Size])
              <=> (last.i >= Size)
        /\ (last.i < Size => err = NoError)
        /\ (err # NoError => a = last.old)
        /\ ~ub

\* A failed write past the end with range checking enabled.
C2_Witness ==
    /\ rangeCheck
    /\ last.op = "write"
    /\ last.i = Size + 1
    /\ err = [type |-> "out_of_range", index |-> Size + 1, size |-> Size]
    /\ a = last.old
    /\ \E j \in Lanes : a[j] # last.x


\* ------------------------------------------------------------------------
\* Primitive operations supplied by the concrete array type
\* ------------------------------------------------------------------------

RECURSIVE BitAndN(_, _, _)
\* Bitwise AND of the low n bits of two patterns.
BitAndN(x, y, n) ==
    IF n = 0 THEN 0
    ELSE (x % 2) * (y % 2) + 2 * BitAndN(x \div 2, y \div 2, n - 1)

RECURSIVE BitOrN(_, _, _)
\* Bitwise OR of the low n bits of two patterns.
BitOrN(x, y, n) ==
    IF n = 0 THEN 0
    ELSE (IF x % 2 = 1 \/ y % 2 = 1 THEN 1 ELSE 0)
           + 2 * BitOrN(x \div 2, y \div 2, n - 1)

RECURSIVE BitXorN(_, _, _)
\* Bitwise XOR of the low n bits of two patterns.
BitXorN(x, y, n) ==
    IF n = 0 THEN 0
    ELSE ((x + y) % 2) + 2 * BitXorN(x \div 2, y \div 2, n - 1)

\* Scalar +, -, * on lanes: two's complement, modulo 2^W.
LaneAdd(k, x, y) == Wrap(k, x + y)

LaneSub(k, x, y) == Wrap(k, x - y)

LaneMul(k, x, y) == Wrap(k, x * y)

\* Scalar &, |, ^ on lanes act on the bit patterns.
LaneAnd(k, x, y) == FromPattern(k, BitAndN(Pattern(k, x), Pattern(k, y), W))

LaneOr(k, x, y) == FromPattern(k, BitOrN(Pattern(k, x), Pattern(k, y), W))

LaneXor(k, x, y) == FromPattern(k, BitXorN(Pattern(k, x), Pattern(k, y), W))

\* Integer division has no defined result for a zero divisor, nor for the
\* minimum signed value divided by -1.
DivUndefined(k, x, y) ==
    \/ y = 0
    \/ (k = "int" /\ x = -(2 ^ (W - 1)) /\ y = -1)

\* Integer quotient rounded toward zero.
TruncDiv(x, y) ==
    LET ax == IF x < 0 THEN -x ELSE x
        ay == IF y < 0 THEN -y ELSE y
        q  == ax \div ay
    IN  IF (x < 0) # (y < 0) THEN -q ELSE q

\* Scalar / on lanes; g is what the machine leaves in the lane when the
\* quotient is undefined.
LaneDiv(k, x, y, g) == IF DivUndefined(k, x, y) THEN g ELSE Wrap(k, TruncDiv(x, y))

VAdd(k, u, v) == [i \in Lanes |-> LaneAdd(k, u[i], v[i])]

VSub(k, u, v) == [i \in Lanes |-> LaneSub(k, u[i], v[i])]

VMul(k, u, v) == [i \in Lanes |-> LaneMul(k, u[i], v[i])]

VDiv(k, u, v, g) == [i \in Lanes |-> LaneDiv(k, u[i], v[i], g[i])]

VAnd(k, u, v) == [i \in Lanes |-> LaneAnd(k, u[i], v[i])]

VOr(k, u, v) == [i \in Lanes |-> LaneOr(k, u[i], v[i])]

VXor(k, u, v) == [i \in Lanes |-> LaneXor(k, u[i], v[i])]

\* select(mask, t, f): per lane, t where the mask is set and f elsewhere.
select(mask, t, f) == [i \in Lanes |-> IF mask[i] THEN t[i] ELSE f[i]]

\* ------------------------------------------------------------------------
\* Masked operator fallbacks: ENOKI_MASKED_OPERATOR_FALLBACK(name, expr)
\* defines m<name>_(e, m) as derived() = select(m, expr, derived()).
\* Each operator here yields the value assigned to derived(), t being the
\* value of derived() when the fallback is entered.
\* ------------------------------------------------------------------------

massign_(k, t, ev, mask) == select(mask, ev, t)

madd_(k, t, ev, mask) == select(mask, VAdd(k, t, ev), t)

\* Subtraction with the operands the wrong way round.
msub_Reversed(k, t, ev, mask) == select(mask, VSub(k, ev, t), t)

msub_(k, t, ev, mask) == select(mask, VSub(k, t, ev), t)

mmul_(k, t, ev, mask) == select(mask, VMul(k, t, ev), t)

mdiv_(k, t, ev, mask, g) == select(mask, VDiv(k, t, ev, g), t)

mor_(k, t, ev, mask) == select(mask, VOr(k, t, ev), t)

mand_(k, t, ev, mask) == select(mask, VAnd(k, t, ev), t)

mxor_(k, t, ev, mask) == select(mask, VXor(k, t, ev), t)

\* ------------------------------------------------------------------------
\* Masked-assign proxy: detail::MaskWrapper
\* ------------------------------------------------------------------------

Masks == [Lanes -> BOOLEAN]

\* A proxy bound to every instance instead of the one it was created on.
RefersTo_Any(p, n) == TRUE

\* MaskWrapper::d is a reference to the instance operator[](Mask) was
\* called on (derived()).
RefersTo(p, n) == p.d = n

\* The vector the proxy references.
Target(p) == IF RefersTo(p, "a") THEN a ELSE b

\* The instance the proxy does not reference.
Other(p) == IF p.d = "a" THEN b ELSE a

\* What a lane holds after a division whose result is undefined, when the
\* machine does not trap.
GarbageVecs == [Lanes -> {0, FromPattern(kind, Pow2W - 1)}]

\* v[m]: StaticArrayBase::operator[](Mask) builds MaskWrapper{derived(), m};
\* the mask is copied into the proxy.
Subscript(n) ==
    /\ ~ub
    /\ proxy = NoProxy
    /\ nops < MaxOps
    /\ proxy' = [d |-> n, m |-> m]
    /\ UNCHANGED <<kind, rangeCheck, approx, shape, mem, a, b, e, m, err, ret, last, written, ub, nops>>

\* End of a proxy statement: the fallback assigns nv to derived() (or the
\* statement ended in outcome er without assigning), and the proxy dies.
Complete(name, nv, er, undefined) ==
    /\ a' = IF RefersTo(proxy, "a") THEN AssignArray(nv) ELSE a
    /\ b' = IF RefersTo(proxy, "b") THEN AssignArray(nv) ELSE b
    /\ err' = er
    /\ ub' = undefined
    /\ last' = [op |-> name, d |-> proxy.d, old |-> Target(proxy),
                other |-> Other(proxy), e |-> e, m |-> proxy.m, obj |-> m]
    /\ proxy' = NoProxy
    /\ nops' = nops + 1
    /\ ret' = 0
    /\ UNCHANGED <<kind, rangeCheck, approx, shape, mem, e, m, written>>

Live == ~ub /\ proxy # NoProxy

\* proxy = value
MaskAssign ==
    /\ Live
    /\ Complete("massign", massign_(kind, Target(proxy), e, proxy.m), NoError, FALSE)

\* proxy += value
MaskAdd ==
    /\ Live
    /\ Complete("madd", madd_(kind, Target(proxy), e, proxy.m), NoError, FALSE)

\* proxy -= value
MaskSub ==
    /\ Live
    /\ Complete("msub", msub_(kind, Target(proxy), e, proxy.m), NoError, FALSE)

\* proxy *= value
MaskMul ==
    /\ Live
    /\ Complete("mmul", mmul_(kind, Target(proxy), e, proxy.m), NoError, FALSE)

\* proxy /= value.  derived() / e is evaluated on every lane before the
\* blend; a lane whose quotient is undefined makes the statement undefined:
\* the machine traps, or leaves some value in that lane and goes on.
MaskDiv ==
    /\ Live
    /\ LET t == Target(proxy) IN
       IF \E i \in Lanes : DivUndefined(kind, t[i], e[i])
       THEN \/ Complete("mdiv", t, [type |-> "trap"], TRUE)
            \/ \E g \in GarbageVecs :
                  Complete("mdiv", mdiv_(kind, t, e, proxy.m, g), NoError, TRUE)
       ELSE Complete("mdiv", mdiv_(kind, t, e, proxy.m, t), NoError, FALSE)

\* proxy |= value
MaskOr ==
    /\ Live
    /\ Complete("mor", mor_(kind, Target(proxy), e, proxy.m), NoError, FALSE)

\* proxy &= value
MaskAnd ==
    /\ Live
    /\ Complete("mand", mand_(kind, Target(proxy), e, proxy.m), NoError, FALSE)

\* proxy ^= value
MaskXor ==
    /\ Live
    /\ Complete("mxor", mxor_(kind, Target(proxy), e, proxy.m), NoError, FALSE)

\* Targets of the proxy statements: lanes 1, 2, ...; lanes with the sign bit
\* set; all lanes all-ones.
TargetInputs(k) ==
    {[i \in Lanes |-> Wrap(k, i + 1)],
     [i \in Lanes |-> FromPattern(k, 2 ^ (W - 1) + i)],
     Broadcast(FromPattern(k, Pow2W - 1))}

\* Value operands: every combination of zero and non-zero lanes.
OperandInputs(k) == [Lanes -> {0, 3}]

Init ==
    /\ kind \in IntKinds
    /\ rangeCheck = TRUE
    /\ a \in TargetInputs(kind)
    /\ b = a
    /\ e \in OperandInputs(kind)
    /\ m \in Masks
    /\ proxy = NoProxy
    /\ err = NoError
    /\ ret = 0
    /\ last = NoOp
    /\ written = a
    /\ ub = FALSE
    /\ nops = 0
    /\ approx = FALSE
    /\ shape = 1
    /\ mem = <<>>

Next ==
    \/ \E n \in {"a", "b"} : Subscript(n)
    \/ MaskAssign
    \/ MaskAdd
    \/ MaskSub
    \/ MaskMul
    \/ MaskDiv
    \/ MaskOr
    \/ MaskAnd
    \/ MaskXor

Spec == Init /\ [][Next]_vars

\* ------------------------------------------------------------------------
\* C3 - C6: masked-assign proxy
\* ------------------------------------------------------------------------

ProxyOps == {"massign", "madd", "msub", "mmul", "mdiv", "mor", "mand", "mxor"}

IsProxyOp == last.op \in ProxyOps

\* The instance the last proxy statement was applied to.
LastTarget == IF last.d = "a" THEN a ELSE b

LastOther == IF last.d = "a" THEN b ELSE a

\* The binary operation of a proxy operator on one lane ('=' yields y).
OpLane(op, k, x, y) ==
    CASE op = "massign" -> y
      [] op = "madd" -> Wrap(k, x + y)
      [] op = "msub" -> Wrap(k, x - y)
      [] op = "mmul" -> Wrap(k, x * y)
      [] op = "mdiv" -> Wrap(k, TruncDiv(x, y))
      [] op = "mor"  -> FromPattern(k, BitOrN(Pattern(k, x), Pattern(k, y), W))
      [] op = "mand" -> FromPattern(k, BitAndN(Pattern(k, x), Pattern(k, y), W))
      [] op = "mxor" -> FromPattern(k, BitXorN(Pattern(k, x), Pattern(k, y), W))

\* The binary operation has a defined result on lane i of the last statement.
OpDefinedAt(i) == last.op = "mdiv" => ~DivUndefined(kind, last.old[i], last.e[i])

\* The binary operation is defined on every lane selected by the mask.
ActiveLanesDefined == \A i \in Lanes : last.m[i] => OpDefinedAt(i)

\* C3: after a proxy operation on target t with value e and mask m, every
\* lane with m[i] true holds op(old t[i], e[i]) (e[i] for '='), and every
\* lane with m[i] false holds old t[i].
C3_BlendedUpdate ==
    (IsProxyOp /\ ActiveLanesDefined) =>
        \A i \in Lanes :
            /\ last.m[i] =>
                  LastTarget[i] = OpLane(last.op, kind, last.old[i], last.e[i])
            /\ ~last.m[i] => LastTarget[i] = last.old[i]

\* C4: a masked operator with an all-false mask leaves the target unchanged
\* in every lane; with an all-true mask it produces the result of the
\* unmasked operator on the whole vector.
C4_MaskIdentity ==
    IsProxyOp =>
        /\ (\A i \in Lanes : ~last.m[i]) => LastTarget = last.old
        /\ ((\A i \in Lanes : last.m[i]) /\ (\A i \in Lanes : OpDefinedAt(i))) =>
              /\ err = NoError
              /\ LastTarget =
                    [i \in Lanes |-> OpLane(last.op, kind, last.old[i], last.e[i])]

\* An all-true masked subtraction that changed the target.
C4_Witness ==
    /\ IsProxyOp
    /\ last.op = "msub"
    /\ \A i \in Lanes : last.m[i]
    /\ \A i \in Lanes : LastTarget[i] # last.old[i]
    /\ LastTarget # [i \in Lanes |-> Wrap(kind, last.e[i] - last.old[i])]

\* C5: a proxy operation mutates only the vector the proxy references: the
\* mask object, the value operand and every other vector instance are as
\* before the operation.
C5_Frame ==
    IsProxyOp =>
        /\ m = last.obj
        /\ last.m = last.obj
        /\ e = last.e
        /\ LastOther = last.other

\* The second of two proxy statements changed its target, and the other
\* instance, which no longer equals the target, kept its value.
C5_Witness ==
    /\ IsProxyOp
    /\ nops = 2
    /\ LastTarget # last.old
    /\ LastOther = last.other
    /\ LastOther # LastTarget
    /\ LastOther # last.old

\* C6: a proxy operation has no error outcome: whatever the target, the
\* value and the mask, it completes and leaves the blended result, also for
\* an integer '/=' whose value has a zero in a lane the mask excludes.
C6_NoErrorOutcome ==
    (IsProxyOp /\ ActiveLanesDefined) =>
        /\ err = NoError
        /\ LastTarget = select(last.m,
                               [i \in Lanes |->
                                   IF OpDefinedAt(i)
                                   THEN OpLane(last.op, kind, last.old[i], last.e[i])
                                   ELSE last.old[i]],
                               last.old)


\* ------------------------------------------------------------------------
\* Rotation fallbacks
\* ------------------------------------------------------------------------

Pow2SizeT == 2 ^ SizeTBits

\* ~k + 1u on a size_t
SizeNeg(k) == ((Pow2SizeT - 1 - k) + 1) % Pow2SizeT

\* x & y on size_t values
SizeAnd(x, y) == BitAndN(x, y, SizeTBits)

\* constexpr size_t mask = 8 * sizeof(Scalar) - 1u
RotMask == W - 1

\* << and >> of an unsigned lane by a count below the width.
LaneShl(x, n) == (x * (2 ^ n)) % Pow2W

LaneShr(x, n) == x \div (2 ^ n)

\* ~x of an unsigned lane.
LaneNotU(x) == Pow2W - 1 - x

\* uint_array_t<Expr>(v): lane-wise conversion to the unsigned scalar.
ToUnsignedVec(k, v) == [i \in Lanes |-> IF k = "int" THEN ToUnsigned(v[i]) ELSE v[i]]

\* Expr(u): lane-wise conversion of an unsigned array back to the scalar.
FromUnsignedVec(k, u) == [i \in Lanes |-> IF k = "int" THEN ToSigned(u[i]) ELSE u[i]]

\* The unsigned branch of rol_ with the right shift count ~k instead of
\* ~k + 1.
rol_MissingPlusOne(k, v, n) ==
    FromUnsignedVec(k,
        [i \in Lanes |->
            BitOrN(LaneShl(ToUnsignedVec(k, v)[i], SizeAnd(n, RotMask)),
                   LaneShr(ToUnsignedVec(k, v)[i],
                           SizeAnd(Pow2SizeT - 1 - n, RotMask)), W)])

\* The unsigned branch of rol_(size_t k).
rol_unsigned(u, n) ==
    [i \in Lanes |->
        BitOrN(LaneShl(u[i], SizeAnd(n, RotMask)),
               LaneShr(u[i], SizeAnd(SizeNeg(n), RotMask)), W)]

\* rol_(size_t k): signed arrays are converted to the unsigned array type,
\* rotated there and converted back.
rol_(k, v, n) ==
    IF k # "int"
    THEN rol_unsigned(v, n)
    ELSE FromUnsignedVec(k, rol_unsigned(ToUnsignedVec(k, v), n))

\* The unsigned branch of ror_(size_t k).
ror_unsigned(u, n) ==
    [i \in Lanes |->
        BitOrN(LaneShr(u[i], SizeAnd(n, RotMask)),
               LaneShl(u[i], SizeAnd(SizeNeg(n), RotMask)), W)]

\* A right rotation with the two shifts exchanged.
ror_ShiftsSwapped(k, v, n) == rol_(k, v, n)

\* ror_(size_t k)
ror_(k, v, n) ==
    IF k # "int"
    THEN ror_unsigned(v, n)
    ELSE FromUnsignedVec(k, ror_unsigned(ToUnsignedVec(k, v), n))

\* The unsigned branch of rolv_(d): Expr mask(Scalar(8 * sizeof(Scalar) - 1u)),
\* counts d & mask and (~d + Scalar(1)) & mask in Scalar arithmetic.
rolv_unsigned(u, d) ==
    [i \in Lanes |->
        BitOrN(LaneShl(u[i], BitAndN(d[i], RotMask, W)),
               LaneShr(u[i], BitAndN((LaneNotU(d[i]) + 1) % Pow2W, RotMask, W)), W)]

\* rolv_(const Derived &d)
rolv_(k, v, d) ==
    IF k # "int"
    THEN rolv_unsigned(v, d)
    ELSE FromUnsignedVec(k, rolv_unsigned(ToUnsignedVec(k, v), ToUnsignedVec(k, d)))

\* The unsigned branch of rorv_(d).
rorv_unsigned(u, d) ==
    [i \in Lanes |->
        BitOrN(LaneShr(u[i], BitAndN(d[i], RotMask, W)),
               LaneShl(u[i], BitAndN((LaneNotU(d[i]) + 1) % Pow2W, RotMask, W)), W)]

\* rorv_ with the left shift count ~d instead of ~d + 1.
rorv_MissingPlusOne(k, v, d) ==
    FromUnsignedVec(k,
        [i \in Lanes |->
            BitOrN(LaneShr(ToUnsignedVec(k, v)[i],
                           BitAndN(ToUnsignedVec(k, d)[i], RotMask, W)),
                   LaneShl(ToUnsignedVec(k, v)[i],
                           BitAndN(LaneNotU(ToUnsignedVec(k, d)[i]), RotMask, W)), W)])

\* rorv_(const Derived &d)
rorv_(k, v, d) ==
    IF k # "int"
    THEN rorv_unsigned(v, d)
    ELSE FromUnsignedVec(k, rorv_unsigned(ToUnsignedVec(k, v), ToUnsignedVec(k, d)))

\* sli<Imm>(v) and sri<Imm>(v): shifts by an immediate below the width.
sli(u, imm) == [i \in Lanes |-> LaneShl(u[i], imm)]

sri(u, imm) == [i \in Lanes |-> LaneShr(u[i], imm)]

\* The unsigned branch of roli_<Imm>().
roli_unsigned(u, imm) ==
    [i \in Lanes |->
        BitOrN(sli(u, SizeAnd(imm, RotMask))[i],
               sri(u, SizeAnd(SizeNeg(imm), RotMask))[i], W)]

\* roli_<Imm>()
roli_(k, v, imm) ==
    IF k # "int"
    THEN roli_unsigned(v, imm)
    ELSE FromUnsignedVec(k, roli_unsigned(ToUnsignedVec(k, v), imm))

\* The unsigned branch of rori_<Imm>().
rori_unsigned(u, imm) ==
    [i \in Lanes |->
        BitOrN(sri(u, SizeAnd(imm, RotMask))[i],
               sli(u, SizeAnd(SizeNeg(imm), RotMask))[i], W)]

\* rori_<Imm>()
rori_(k, v, imm) ==
    IF k # "int"
    THEN rori_unsigned(v, imm)
    ELSE FromUnsignedVec(k, rori_unsigned(ToUnsignedVec(k, v), imm))

\* ------------------------------------------------------------------------
\* NOT and negation fallbacks
\* ------------------------------------------------------------------------

\* memcpy_cast<Scalar>(int_array_t<Expr>::Scalar(-1)): the scalar whose
\* object representation is that of the integer -1.
AllOnes(k) == FromPattern(k, ToUnsigned(-1))

\* Scalar(-0.f): only the sign bit set.
NegZero == 2 ^ (W - 1)

\* ~v of the concrete array type.
VNot(k, v) == [i \in Lanes |-> FromPattern(k, LaneNotU(Pattern(k, v[i])))]

\* NOT with a mask built from the value 1 instead of the all-ones pattern.
not_MaskOne(k, v) == VXor(k, v, Broadcast(1))

\* not_(): derived() ^ mask, mask being all ones.
not_(k, v) == VXor(k, v, Broadcast(AllOnes(k)))

\* Negation that omits the + 1.
neg_OnesComplement(k, v) ==
    IF k = "float" THEN VXor(k, v, Broadcast(NegZero)) ELSE VNot(k, v)

\* neg_(): sign-bit flip for floating point, ~x + 1 otherwise.
neg_(k, v) ==
    IF k = "float"
    THEN VXor(k, v, Broadcast(NegZero))
    ELSE VAdd(k, VNot(k, v), Broadcast(1))

\* ------------------------------------------------------------------------
\* Runs of the bit-level fallbacks: the input vector is a, the result ret.
\* ------------------------------------------------------------------------

\* Input vectors: lane 0 takes every value of the scalar, the other lanes
\* are all zero or all ones.
BitInputs(k) ==
    {[i \in Lanes |-> IF i = 0 THEN x ELSE y] :
        x \in LaneValues(k), y \in {0, AllOnes(k)}}

\* Rotation counts passed as size_t: 0 .. W + 1 and the largest size_t.
RotCounts == (0 .. (W + 1)) \cup {Pow2SizeT - 1}

\* Per-lane rotation counts: 1 or the all-ones lane, lane by lane.
CountVecs(k) == [Lanes -> {1, AllOnes(k)}]

\* One call of a fallback on the freshly constructed vector.
BitStep(name, n, d, result) ==
    /\ last = NoOp
    /\ ret' = result
    /\ last' = [op |-> name, k |-> n, d |-> d]
    /\ UNCHANGED <<kind, rangeCheck, approx, shape, mem, a, b, e, m, proxy, err, written, ub, nops>>

Rol(n) == kind \in IntKinds /\ BitStep("rol", n, Broadcast(n), rol_(kind, a, n))

Ror(n) == kind \in IntKinds /\ BitStep("ror", n, Broadcast(n), ror_(kind, a, n))

Rolv(d) == kind \in IntKinds /\ BitStep("rolv", 0, d, rolv_(kind, a, d))

Rorv(d) == kind \in IntKinds /\ BitStep("rorv", 0, d, rorv_(kind, a, d))

Roli(n) == kind \in IntKinds /\ BitStep("roli", n, Broadcast(n), roli_(kind, a, n))

Rori(n) == kind \in IntKinds /\ BitStep("rori", n, Broadcast(n), rori_(kind, a, n))

Not == BitStep("not", 0, Broadcast(0), not_(kind, a))

Neg == BitStep("neg", 0, Broadcast(0), neg_(kind, a))

InitBits ==
    /\ kind \in Kinds
    /\ rangeCheck = TRUE
    /\ a \in BitInputs(kind)
    /\ b = a
    /\ e = a
    /\ m = [i \in Lanes |-> TRUE]
    /\ proxy = NoProxy
    /\ err = NoError
    /\ ret = a
    /\ last = NoOp
    /\ written = a
    /\ ub = FALSE
    /\ nops = 0
    /\ approx = FALSE
    /\ shape = 1
    /\ mem = <<>>

NextBits ==
    \/ \E n \in RotCounts : Rol(n)
    \/ \E n \in RotCounts : Ror(n)
    \/ \E d \in CountVecs(kind) : Rolv(d)
    \/ \E d \in CountVecs(kind) : Rorv(d)
    \/ \E n \in RotCounts : Roli(n)
    \/ \E n \in RotCounts : Rori(n)
    \/ Not
    \/ Neg

SpecBits == InitBits /\ [][NextBits]_vars

\* ------------------------------------------------------------------------
\* C7 - C10: rotation, NOT, negation
\* ------------------------------------------------------------------------

\* Bit j of a pattern.
Bit(p, j) == (p \div (2 ^ j)) % 2

RECURSIVE RotlBits(_, _, _)
\* The pattern whose bit j is bit (j - n) mod W of p, for the bits from j up.
RotlBits(p, n, j) ==
    IF j = W THEN 0
    ELSE Bit(p, (j - n) % W) * (2 ^ j) + RotlBits(p, n, j + 1)

\* Circular left rotation of the W bits of p by n positions.
RefRotl(p, n) == RotlBits(p, n % W, 0)

\* Circular right rotation of the W bits of p by n positions.
RefRotr(p, n) == RotlBits(p, (W - (n % W)) % W, 0)

\* C7: for unsigned lanes of width W, every vector v and every k in [0, W):
\* rol(rol(v, k), W - k) = v, the second count being W when k = 0.
C7_RotateRoundTrip ==
    (kind = "uint" /\ last.op = "rol" /\ last.k < W) =>
        /\ ret = rol_(kind, a, last.k)
        /\ rol_(kind, ret, W - last.k) = a

\* A rotation by k = 0 (second count W) of a lane with mixed bits.
C7_Witness ==
    /\ kind = "uint"
    /\ last.op = "rol"
    /\ last.k = 0
    /\ a[0] = 2 ^ (W - 1) + 1
    /\ rol_(kind, rol_(kind, a, 1), W - 1) = a
    /\ rol_(kind, a, 1) # a

\* The count of the last rotation on lane i, as an integer.
RotCountAt(i) == IF last.op \in {"rolv", "rorv"} THEN last.d[i] ELSE last.k

\* C8: rol/ror (scalar, per-lane or immediate count, any count) of an integer
\* lane is the circular left/right rotation of its W bits by the count
\* modulo W, the two shift counts being masked to W - 1 and complementary;
\* a signed lane has the bit pattern of the rotated unsigned reinterpretation.
C8_RotateIsCircular ==
    /\ last.op \in {"rol", "rolv", "roli"} =>
          \A i \in Lanes :
              Pattern(kind, ret[i]) = RefRotl(Pattern(kind, a[i]), RotCountAt(i))
    /\ last.op \in {"ror", "rorv", "rori"} =>
          \A i \in Lanes :
              Pattern(kind, ret[i]) = RefRotr(Pattern(kind, a[i]), RotCountAt(i))
    /\ last.op \in {"rol", "ror", "roli", "rori"} =>
          /\ SizeAnd(last.k, RotMask) = last.k % W
          /\ SizeAnd(SizeNeg(last.k), RotMask) = (W - (last.k % W)) % W
    /\ (kind = "int" /\ last.op = "rol") =>
          ToUnsignedVec(kind, ret) = rol_("uint", ToUnsignedVec(kind, a), last.k)
    /\ (kind = "int" /\ last.op = "ror") =>
          ToUnsignedVec(kind, ret) = ror_("uint", ToUnsignedVec(kind, a), last.k)

\* A right rotation of a negative signed lane by a count above the width.
C8_Witness ==
    /\ kind = "int"
    /\ last.op = "ror"
    /\ last.k = W + 1
    /\ a[0] = -(2 ^ (W - 1)) + 1
    /\ ret[0] = ToSigned(2 ^ (W - 1) + 2 ^ (W - 2))

\* C9: not_ flips every bit of every lane (XOR with all ones), for integer
\* and floating bit patterns, and not_(not_(v)) = v.
C9_NotInvolution ==
    last.op = "not" =>
        /\ \A i \in Lanes : \A j \in 0 .. (W - 1) :
              Bit(Pattern(kind, ret[i]), j) = 1 - Bit(Pattern(kind, a[i]), j)
        /\ not_(kind, ret) = a

\* NOT of a floating vector whose lane 0 has mixed bits.
C9_Witness ==
    /\ last.op = "not"
    /\ kind = "float"
    /\ a[0] = 2 ^ (W - 1) + 1
    /\ ret[0] = 2 ^ (W - 1) - 2

\* C10: for integer lanes neg_(x) = (~x + 1) mod 2^W, x + neg_(x) = 0 mod
\* 2^W and neg_(neg_(x)) = x, also for the minimum signed value; for
\* floating lanes neg_ flips the sign bit only and neg_(neg_(x)) = x.
C10_NegInvolution ==
    last.op = "neg" =>
        /\ neg_(kind, ret) = a
        /\ kind \in IntKinds =>
              \A i \in Lanes :
                  /\ Pattern(kind, ret[i]) = (Pow2W - Pattern(kind, a[i])) % Pow2W
                  /\ (a[i] + ret[i]) % Pow2W = 0
                  /\ ret[i] \in LaneValues(kind)
        /\ kind = "float" =>
              \A i \in Lanes :
                  /\ Bit(ret[i], W - 1) = 1 - Bit(a[i], W - 1)
                  /\ \A j \in 0 .. (W - 2) : Bit(ret[i], j) = Bit(a[i], j)

\* Negation of the minimum signed value.
C10_Witness ==
    /\ last.op = "neg"
    /\ kind = "int"
    /\ a[0] = -(2 ^ (W - 1))
    /\ ret[0] = a[0]
    /\ \E i \in Lanes : a[i] = -1 /\ ret[i] = 1

\* ------------------------------------------------------------------------
\* C29: left and right rotation are mutual inverses
\* ------------------------------------------------------------------------

\* The count (W - k) mod W of the opposite rotation, k a size_t.
OppositeCount(n) == (W - (n % W)) % W

\* The per-lane counts (W - d) mod W of the opposite rotation, as lanes of
\* the array's scalar type.
OppositeCounts(k, d) ==
    [i \in Lanes |-> FromPattern(k, OppositeCount(Pattern(k, d[i])))]

\* C29: for signed and unsigned integer lanes of width W, every vector v
\* and every count k (any size_t, or one count per lane in the by-vector
\* forms): ror_(rol_(v, k), k) = v, rol_(ror_(v, k), k) = v and
\* rol_(v, k) = ror_(v, (W - k) mod W).
C29_RotateInverses ==
    /\ last.op = "rol" =>
          /\ ror_(kind, ret, last.k) = a
          /\ ret = ror_(kind, a, OppositeCount(last.k))
    /\ last.op = "ror" => rol_(kind, ret, last.k) = a
    /\ last.op = "rolv" =>
          /\ rorv_(kind, ret, last.d) = a
          /\ ret = rorv_(kind, a, OppositeCounts(kind, last.d))
    /\ last.op = "rorv" => rolv_(kind, ret, last.d) = a

\* A by-vector left rotation of a signed array whose lane 0 has mixed bits
\* and the count -1, which moves the bits and is undone by rorv_.
C29_Witness ==
    /\ kind = "int"
    /\ last.op = "rolv"
    /\ last.d[0] = -1
    /\ a[0] = -(2 ^ (W - 1)) + 1
    /\ ret # a
    /\ rorv_(kind, ret, last.d) = a

\* A left rotation by the largest size_t, equal to the right rotation by 1.
C29_WitnessLargeCount ==
    /\ last.op = "rol"
    /\ last.k = Pow2SizeT - 1
    /\ OppositeCount(last.k) = 1
    /\ a[0] = 1
    /\ ret[0] = FromPattern(kind, 2 ^ (W - 1))

\* ------------------------------------------------------------------------
\* Memory: gather_, scatter_, transform_
\* ------------------------------------------------------------------------

\* The cells of the region mem points into.  A call passes the position of
\* the mem pointer (0 or 1), the stride (1 or 2) and an index vector with
\* lanes in 0 .. Size - 1; positions and strides count scalars (bytes
\* divided by sizeof(Value)), so every address lies inside the region.
Cells == 0 .. (2 * Size - 1)

\* The arguments of the calls: mem position, stride and index vector.
MemArgs == [base : {0, 1}, stride : {1, 2}, index : [Lanes -> Lanes]]

\* Scalar gather<Value, Stride>(mem, index, mask): the scalar at
\* base + stride * index, zero for a lane that is masked off.
gather(mm, base, stride, idx, msk) ==
    IF msk THEN mm[base + stride * idx] ELSE 0

\* Scalar scatter<Stride>(mem, value, index, mask): store to the cell at
\* base + stride * index unless masked off.
scatter(mm, base, stride, val, idx, msk) ==
    IF msk THEN [mm EXCEPT ![base + stride * idx] = val] ELSE mm

\* The update function func of transform_ applied to one scalar: "inc" adds
\* one, the other function ("twice") doubles.
Apply(k, f, x) == IF f = "inc" THEN LaneAdd(k, x, 1) ELSE LaneAdd(k, x, x)

\* Scalar transform<Value, Stride>(mem, index, func, mask): func updates the
\* cell at base + stride * index in place unless masked off.
transform(k, mm, base, stride, idx, f, msk) ==
    IF msk
    THEN [mm EXCEPT ![base + stride * idx] = Apply(k, f, mm[base + stride * idx])]
    ELSE mm

\* The mask of the overloads that take no mask.
AllTrue == [i \in Lanes |-> TRUE]

\* gather_(mem, index): result.coeff(i) = gather(mem, index.coeff(i)).
gather_(mm, base, stride, index) ==
    [i \in Lanes |-> gather(mm, base, stride, coeff(index, i), TRUE)]

\* gather_(mem, index, mask).
gather_Masked(mm, base, stride, index, mask) ==
    [i \in Lanes |-> gather(mm, base, stride, coeff(index, i), coeff(mask, i))]

RECURSIVE ScatterLoop_Descending(_, _, _, _, _, _, _)
\* The loop of scatter_ run from the last lane down: step i stores lane
\* Size - 1 - i.
ScatterLoop_Descending(mm, i, v, base, stride, index, mask) ==
    IF i >= Size
    THEN mm
    ELSE ScatterLoop_Descending(
             scatter(mm, base, stride, coeff(v, Size - 1 - i),
                     coeff(index, Size - 1 - i), coeff(mask, Size - 1 - i)),
             i + 1, v, base, stride, index, mask)

\* The loop of scatter_: lanes i, i + 1, .., Size - 1 in this order.
RECURSIVE ScatterLoop(_, _, _, _, _, _, _)
ScatterLoop(mm, i, v, base, stride, index, mask) ==
    IF i >= Size
    THEN mm
    ELSE ScatterLoop(scatter(mm, base, stride, coeff(v, i), coeff(index, i),
                             coeff(mask, i)),
                     i + 1, v, base, stride, index, mask)

\* Scatter that stores lane 0 of the vector through every lane's index.
scatter_FirstLane(mm, v, base, stride, index) ==
    ScatterLoop(mm, 0, Broadcast(coeff(v, 0)), base, stride, index, AllTrue)

\* scatter_(mem, index): for i = 0 .. Size - 1, scatter(mem, coeff(i),
\* index.coeff(i)).
scatter_(mm, v, base, stride, index) ==
    ScatterLoop(mm, 0, v, base, stride, index, AllTrue)

\* Masked scatter that stores every lane.
scatter_MaskIgnored(mm, v, base, stride, index, mask) ==
    ScatterLoop(mm, 0, v, base, stride, index, AllTrue)

\* scatter_(mem, index, mask).
scatter_Masked(mm, v, base, stride, index, mask) ==
    ScatterLoop(mm, 0, v, base, stride, index, mask)

\* Transform that updates every cell addressed by the lanes from i on once,
\* from the content the cell had before the call.
TransformLoop_OncePerCell(k, mm, i, base, stride, index, f, mask) ==
    [c \in DOMAIN mm |->
        IF \E n \in Lanes :
               n >= i /\ coeff(mask, n) /\ c = base + stride * coeff(index, n)
        THEN Apply(k, f, mm[c])
        ELSE mm[c]]

\* The loop of transform_: lanes i, i + 1, .., Size - 1 in this order.
RECURSIVE TransformLoop(_, _, _, _, _, _, _, _)
TransformLoop(k, mm, i, base, stride, index, f, mask) ==
    IF i >= Size
    THEN mm
    ELSE TransformLoop(k, transform(k, mm, base, stride, coeff(index, i), f,
                                    coeff(mask, i)),
                       i + 1, base, stride, index, f, mask)

\* Transform that runs the loop a second time.
transform_Twice(k, mm, base, stride, index, f) ==
    TransformLoop(k, TransformLoop(k, mm, 0, base, stride, index, f, AllTrue),
                  0, base, stride, index, f, AllTrue)

\* transform_(mem, index, func).
transform_(k, mm, base, stride, index, f) ==
    TransformLoop(k, mm, 0, base, stride, index, f, AllTrue)

\* transform_(mem, index, func, mask).
transform_Masked(k, mm, base, stride, index, f, mask) ==
    TransformLoop(k, mm, 0, base, stride, index, f, mask)

\* Scalar prefetch<Value, Stride, Write, Level>(mem, index, mask): a cache
\* hint for the cell at base + stride * index; mem is a const void *, no
\* scalar is stored.
prefetch(mm, base, stride, idx, msk) == mm

\* prefetch_(mem, index) and prefetch_(mem, index, mask): for i = 0 ..
\* Size - 1, prefetch(mem, index.coeff(i), mask.coeff(i)); the overload
\* without a mask is the call with AllTrue.
prefetch_(mm, base, stride, index, mask) ==
    LET RECURSIVE Loop(_, _)
        Loop(r, i) ==
            IF i >= Size
            THEN r
            ELSE Loop(prefetch(r, base, stride, coeff(index, i), coeff(mask, i)),
                      i + 1)
    IN  Loop(mm, 0)

\* Scalar store_compress(mem, value, mask), mem a void *&: a lane whose mask
\* is set is stored at mem and mem moves on by one scalar; a masked-off lane
\* stores nothing and leaves mem alone.  st is the region and the pointer.
store_compress(st, val, msk) ==
    IF msk
    THEN [mm |-> [st.mm EXCEPT ![st.ptr] = val], ptr |-> st.ptr + 1]
    ELSE st

\* Compressing store that keeps every lane at its own offset.
store_compress_Expanded(mm, ptr, v, mask) ==
    [mm  |-> [c \in DOMAIN mm |->
                 IF \E i \in Lanes : coeff(mask, i) /\ c = ptr + i
                 THEN coeff(v, c - ptr)
                 ELSE mm[c]],
     ptr |-> ptr + Cardinality({i \in Lanes : coeff(mask, i)})]

\* store_compress_(void *&mem, mask): for i = 0 .. Size - 1,
\* store_compress(mem, derived().coeff(i), mask.coeff(i)), every call on the
\* caller's pointer.  The result is the region and the caller's pointer
\* after the call.
store_compress_(mm, ptr, v, mask) ==
    LET RECURSIVE Loop(_, _)
        Loop(st, i) ==
            IF i >= Size
            THEN st
            ELSE Loop(store_compress(st, coeff(v, i), coeff(mask, i)), i + 1)
    IN  Loop([mm |-> mm, ptr |-> ptr], 0)

\* ------------------------------------------------------------------------
\* Runs of the memory fallbacks: the vector is a, the region mem, a gathered
\* vector ret (after store_compress_: the caller's mem pointer).  A run is
\* one call, or a scatter followed by the gather with the same arguments.
\* ------------------------------------------------------------------------

\* The record of a call: its arguments and the region before it.
MemCall(name, c, mask, f) ==
    [op |-> name, base |-> c.base, stride |-> c.stride, index |-> c.index,
     mask |-> mask, func |-> f, before |-> mem, after |-> last.op]

Scatter(c) ==
    /\ last = NoOp
    /\ mem' = scatter_(mem, a, c.base, c.stride, c.index)
    /\ last' = MemCall("scatter", c, AllTrue, "none")
    /\ UNCHANGED <<kind, rangeCheck, approx, shape, a, b, e, m, proxy, err, ret, written, ub, nops>>

ScatterMasked(c, mask) ==
    /\ last = NoOp
    /\ mem' = scatter_Masked(mem, a, c.base, c.stride, c.index, mask)
    /\ last' = MemCall("scatter_masked", c, mask, "none")
    /\ UNCHANGED <<kind, rangeCheck, approx, shape, a, b, e, m, proxy, err, ret, written, ub, nops>>

Gather(c) ==
    /\ \/ last = NoOp
       \/ /\ last.op = "scatter"
          /\ c = [base |-> last.base, stride |-> last.stride, index |-> last.index]
    /\ ret' = gather_(mem, c.base, c.stride, c.index)
    /\ last' = MemCall("gather", c, AllTrue, "none")
    /\ UNCHANGED <<kind, rangeCheck, approx, shape, mem, a, b, e, m, proxy, err, written, ub, nops>>

GatherMasked(c, mask) ==
    /\ \/ last = NoOp
       \/ /\ last.op = "scatter_masked"
          /\ c = [base |-> last.base, stride |-> last.stride, index |-> last.index]
          /\ mask = last.mask
    /\ ret' = gather_Masked(mem, c.base, c.stride, c.index, mask)
    /\ last' = MemCall("gather_masked", c, mask, "none")
    /\ UNCHANGED <<kind, rangeCheck, approx, shape, mem, a, b, e, m, proxy, err, written, ub, nops>>

Transform(c, f) ==
    /\ last = NoOp
    /\ mem' = transform_(kind, mem, c.base, c.stride, c.index, f)
    /\ last' = MemCall("transform", c, AllTrue, f)
    /\ UNCHANGED <<kind, rangeCheck, approx, shape, a, b, e, m, proxy, err, ret, written, ub, nops>>

TransformMasked(c, f, mask) ==
    /\ last = NoOp
    /\ mem' = transform_Masked(kind, mem, c.base, c.stride, c.index, f, mask)
    /\ last' = MemCall("transform_masked", c, mask, f)
    /\ UNCHANGED <<kind, rangeCheck, approx, shape, a, b, e, m, proxy, err, ret, written, ub, nops>>

\* prefetch_, with or without a mask (AllTrue).
Prefetch(c, mask) ==
    /\ last = NoOp
    /\ mem' = prefetch_(mem, c.base, c.stride, c.index, mask)
    /\ last' = MemCall("prefetch", c, mask, "none")
    /\ UNCHANGED <<kind, rangeCheck, approx, shape, a, b, e, m, proxy, err, ret, written, ub, nops>>

\* store_compress_ with the caller's pointer at cell base; lane i of the
\* record's index is i, its stride 1.
StoreCompress(base, mask) ==
    /\ last = NoOp
    /\ mem' = store_compress_(mem, base, a, mask).mm
    /\ ret' = store_compress_(mem, base, a, mask).ptr
    /\ last' = MemCall("store_compress",
                       [base |-> base, stride |-> 1, index |-> [i \in Lanes |-> i]],
                       mask, "none")
    /\ UNCHANGED <<kind, rangeCheck, approx, shape, a, b, e, m, proxy, err, written, ub, nops>>

\* The region starts with cell c holding c + 1 or with all ones in every
\* cell; the vector has distinct lanes, counted down from all ones minus
\* one or counted up from the sign bit.
InitMem ==
    /\ kind \in IntKinds
    /\ rangeCheck = TRUE
    /\ approx = FALSE
    /\ shape = 1
    /\ mem \in {[c \in Cells |-> FromPattern(kind, (c + 1) % Pow2W)],
                [c \in Cells |-> AllOnes(kind)]}
    /\ a \in {[i \in Lanes |-> FromPattern(kind, (Pow2W - 2 - i) % Pow2W)],
              [i \in Lanes |-> FromPattern(kind, (2 ^ (W - 1) + i) % Pow2W)]}
    /\ b = a
    /\ e = a
    /\ m = AllTrue
    /\ proxy = NoProxy
    /\ err = NoError
    /\ ret = Broadcast(0)
    /\ last = NoOp
    /\ written = a
    /\ ub = FALSE
    /\ nops = 0

NextMem ==
    \/ \E c \in MemArgs : Scatter(c)
    \/ \E c \in MemArgs, mask \in Masks : ScatterMasked(c, mask)
    \/ \E c \in MemArgs : Gather(c)
    \/ \E c \in MemArgs, mask \in Masks : GatherMasked(c, mask)
    \/ \E c \in MemArgs, f \in {"inc", "twice"} : Transform(c, f)
    \/ \E c \in MemArgs, f \in {"inc", "twice"}, mask \in Masks :
           TransformMasked(c, f, mask)
    \/ \E c \in MemArgs, mask \in Masks : Prefetch(c, mask)
    \/ \E base \in {0, 1}, mask \in Masks : StoreCompress(base, mask)

SpecMem == InitMem /\ [][NextMem]_vars

\* ------------------------------------------------------------------------
\* C11, C12: gather, scatter, transform
\* ------------------------------------------------------------------------

\* The lanes selected by mask address pairwise distinct cells.
DistinctLanes(index, mask) ==
    \A i, j \in Lanes : (mask[i] /\ mask[j] /\ i # j) => index[i] # index[j]

\* C11: when the lanes of the index vector address pairwise distinct cells,
\* scatter_(mem, index) followed by gather_(mem, index) with the same base,
\* stride and indices returns a vector equal to the scattered vector in
\* every lane.
C11_GatherScatterRoundTrip ==
    (/\ last.op = "gather"
     /\ last.after = "scatter"
     /\ DistinctLanes(last.index, AllTrue))
        => \A i \in Lanes : ret[i] = a[i]

\* A gather after a scatter of distinct lane values with stride 2 and a
\* non-identity index vector, some cell of the region holding another value.
C11_Witness ==
    /\ last.op = "gather"
    /\ last.after = "scatter"
    /\ DistinctLanes(last.index, AllTrue)
    /\ last.stride = 2
    /\ last.index[0] # 0
    /\ a[0] # a[1]
    /\ ret = a
    /\ \E c \in Cells : \A i \in Lanes : mem[c] # a[i]

\* The last call is a transform_, plain or masked.
IsTransform == last.op \in {"transform", "transform_masked"}

\* The region obtained from the region before the last transform_ by
\* gathering the addressed cells, applying func to every gathered lane and
\* scattering the results to the same indices.
GatherModifyScatter ==
    LET g == IF last.op = "transform"
             THEN gather_(last.before, last.base, last.stride, last.index)
             ELSE gather_Masked(last.before, last.base, last.stride,
                                last.index, last.mask)
        r == [i \in Lanes |-> Apply(kind, last.func, g[i])]
    IN  IF last.op = "transform"
        THEN scatter_(last.before, r, last.base, last.stride, last.index)
        ELSE scatter_Masked(last.before, r, last.base, last.stride,
                            last.index, last.mask)

\* Cell c is addressed by a mask-true lane of the last call.
Addressed(c) ==
    \E i \in Lanes :
        last.mask[i] /\ c = last.base + last.stride * last.index[i]

\* C12: when the index lanes (the mask-true ones in the masked form) are
\* pairwise distinct, transform_ leaves the region in the state produced by
\* gathering the addressed cells, applying func to each gathered lane and
\* scattering the results to the same indices, and every cell that is not
\* addressed keeps its content.
C12_TransformIsGatherModifyScatter ==
    (IsTransform /\ DistinctLanes(last.index, last.mask))
        => /\ mem = GatherModifyScatter
           /\ \A c \in Cells : ~Addressed(c) => mem[c] = last.before[c]

\* A masked transform_ whose mask-true lanes are distinct while a masked-off
\* lane repeats an index, which changes an addressed cell and leaves
\* another cell alone.
C12_Witness ==
    /\ last.op = "transform_masked"
    /\ DistinctLanes(last.index, last.mask)
    /\ ~DistinctLanes(last.index, AllTrue)
    /\ \E i \in Lanes : last.mask[i]
    /\ \E c \in Cells : Addressed(c) /\ mem[c] # last.before[c]
    /\ \E c \in Cells : ~Addressed(c)
    /\ mem = GatherModifyScatter

\* ------------------------------------------------------------------------
\* C24: frame of scatter_, gather_ and prefetch_
\* ------------------------------------------------------------------------

\* C24: scatter_ changes only the cells at base + stride * index[lane] of
\* its lanes, the masked scatter_ only those of the mask-true lanes (none
\* for an all-false mask); every other cell and the source vector are
\* unchanged, the call leaves its index and mask arguments as passed;
\* gather_ and prefetch_ change no cell.
C24_ScatterFrame ==
    /\ last.op \in {"scatter", "scatter_masked"} =>
          /\ \A c \in Cells : ~Addressed(c) => mem[c] = last.before[c]
          /\ (\A i \in Lanes : ~last.mask[i]) => mem = last.before
          /\ a = written
    /\ last.op \in {"gather", "gather_masked", "prefetch"} =>
          /\ mem = last.before
          /\ a = written

\* A masked scatter_ with a true and a false lane addressing different
\* cells: the cell of the true lane changes, the cell of the false lane
\* keeps a content that differs from that lane's value.
C24_Witness ==
    /\ last.op = "scatter_masked"
    /\ \E i, j \in Lanes :
          /\ last.mask[i] /\ ~last.mask[j]
          /\ ~Addressed(last.base + last.stride * last.index[j])
          /\ mem[last.base + last.stride * last.index[i]] = a[i]
          /\ last.before[last.base + last.stride * last.index[i]] # a[i]
          /\ mem[last.base + last.stride * last.index[j]] # a[j]

\* A masked prefetch_ on a region with distinct cells.
C24_WitnessPrefetch ==
    /\ last.op = "prefetch"
    /\ \E i \in Lanes : last.mask[i]
    /\ \E i \in Lanes : ~last.mask[i]
    /\ mem[0] # mem[1]

\* ------------------------------------------------------------------------
\* C26: compressing store
\* ------------------------------------------------------------------------

\* The number of mask-true lanes of the last call below lane i.
TrueBelow(i) == Cardinality({j \in Lanes : j < i /\ last.mask[j]})

C26_WitnessNone ==
    /\ last.op = "store_compress"
    /\ \A i \in Lanes : ~last.mask[i]
    /\ ret = last.base
    /\ mem = last.before

\* ------------------------------------------------------------------------
\* C27, C28: scatter_ and transform_ with lanes that address the same cell
\* ------------------------------------------------------------------------

\* The mask-true lanes of the last call that address cell c.
LanesAt(c) ==
    {i \in Lanes : last.mask[i] /\ c = last.base + last.stride * last.index[i]}

\* The largest lane of a non-empty set of lanes.
Highest(S) == CHOOSE i \in S : \A j \in S : j <= i

\* C27: scatter_ stores its (mask-true) lanes in ascending lane order: a
\* cell addressed by several lanes holds the value of the highest such
\* lane after the call, and the call completes without an error.
C27_ScatterHighestLaneWins ==
    last.op \in {"scatter", "scatter_masked"} =>
        /\ \A c \in Cells :
              LanesAt(c) # {} => mem[c] = a[Highest(LanesAt(c))]
        /\ err = NoError
        /\ ~ub

\* A scatter_ whose lanes 0 and 1 address one cell: the cell holds lane 1,
\* which differs from lane 0.
C27_Witness ==
    /\ last.op = "scatter"
    /\ last.index[0] = last.index[1]
    /\ a[0] # a[1]
    /\ Highest(LanesAt(last.base + last.stride * last.index[0])) >= 1
    /\ mem[last.base + last.stride * last.index[0]]
           = a[Highest(LanesAt(last.base + last.stride * last.index[0]))]
    /\ err = NoError

RECURSIVE ApplyTimes(_, _, _, _)
\* func applied n times to x.
ApplyTimes(k, f, n, x) ==
    IF n = 0 THEN x ELSE ApplyTimes(k, f, n - 1, Apply(k, f, x))

\* C28: transform_ applies func once per (mask-true) lane, in ascending lane
\* order, to the current content of the lane's cell: a cell addressed by n
\* lanes ends up as func applied n times to its content before the call,
\* where the gather, modify, scatter sequence leaves func applied once; for
\* func = "add one" the two regions differ whenever two lanes share a cell.
C28_TransformPerLane ==
    IsTransform =>
        /\ \A c \in Cells :
              /\ mem[c] = ApplyTimes(kind, last.func, Cardinality(LanesAt(c)),
                                     last.before[c])
              /\ LanesAt(c) # {} =>
                    GatherModifyScatter[c] = Apply(kind, last.func, last.before[c])
        /\ (last.func = "inc" /\ \E c \in Cells : Cardinality(LanesAt(c)) >= 2)
              => mem # GatherModifyScatter

\* A transform_ with the doubling function whose lanes 0 and 1 address one
\* cell: the cell is doubled twice, not once.
C28_Witness ==
    /\ last.op = "transform"
    /\ last.func = "twice"
    /\ last.index[0] = last.index[1]
    /\ \E c \in Cells :
          /\ Cardinality(LanesAt(c)) >= 2
          /\ mem[c] = ApplyTimes(kind, "twice", Cardinality(LanesAt(c)), last.before[c])
          /\ mem[c] # Apply(kind, "twice", last.before[c])
          /\ mem[c] # GatherModifyScatter[c]

\* ------------------------------------------------------------------------
\* Fused multiply-add variants, shuffle, resize, size decomposition
\* ------------------------------------------------------------------------

\* fmadd_(b, c): derived() * b + c.
fmadd_(k, v, bb, cc) == VAdd(k, VMul(k, v, bb), cc)

\* fmsub_(b, c): derived() * b - c.
fmsub_(k, v, bb, cc) == VSub(k, VMul(k, v, bb), cc)

\* fmsubadd_(b, c): the scalar fmadd (x * y + z) in the lanes with
\* i % 2 == 0, the scalar fmsub (x * y - z) in the others.
fmsubadd_(k, v, bb, cc) ==
    [i \in Lanes |->
        IF i % 2 = 0
        THEN LaneAdd(k, LaneMul(k, coeff(v, i), coeff(bb, i)), coeff(cc, i))
        ELSE LaneSub(k, LaneMul(k, coeff(v, i), coeff(bb, i)), coeff(cc, i))]

\* The alternation with the two branches exchanged.
fmaddsub_ParitySwapped(k, v, bb, cc) == fmsubadd_(k, v, bb, cc)

\* fmaddsub_(b, c): the scalar fmsub in the lanes with i % 2 == 0, the
\* scalar fmadd in the others.
fmaddsub_(k, v, bb, cc) ==
    [i \in Lanes |->
        IF i % 2 = 0
        THEN LaneSub(k, LaneMul(k, coeff(v, i), coeff(bb, i)), coeff(cc, i))
        ELSE LaneAdd(k, LaneMul(k, coeff(v, i), coeff(bb, i)), coeff(cc, i))]

\* The pack expansion of shuffle_: out.coeff(idx++) = coeff(Indices), for
\* the indices from position idx on, left to right.
RECURSIVE ShuffleLoop(_, _, _, _)
ShuffleLoop(out, idx, v, I) ==
    IF idx >= Size
    THEN out
    ELSE ShuffleLoop([out EXCEPT ![idx] = coeff(v, I[idx])], idx + 1, v, I)

\* Shuffle that consumes the index list from its last entry to its first.
shuffle_Reversed(v, I) ==
    ShuffleLoop(Broadcast(0), 0, v, [k \in Lanes |-> I[Size - 1 - k]])

\* shuffle_<Indices...>(): the index list has Size entries (static_assert);
\* out starts as a default-constructed array and every lane is assigned.
shuffle_(v, I) == ShuffleLoop(Broadcast(0), 0, v, I)

\* The length error thrown by resize_.
LengthError == [type |-> "length_error"]

\* resize_ that accepts every size up to Size.
resize_OnlyGrow(v, n) == IF n > size(v) THEN LengthError ELSE NoError

\* resize_(size): throws std::length_error iff size != Derived::Size; the
\* array is not touched.
resize_(v, n) == IF n # size(v) THEN LengthError ELSE NoError

\* Largest lane count for which the size decomposition is computed.
MaxN == 12

\* detail::lpow2(n): the largest power of two not exceeding n.
RECURSIVE lpow2(_)
lpow2(n) == IF n <= 1 THEN n ELSE 2 * lpow2(n \div 2)

\* Size1 taken from the lane count minus one.
Size1_OfPredecessor(n) == lpow2(n - 1)

\* Size1 = detail::lpow2(Size_).
Size1(n) == lpow2(n)

\* Size2 that counts one lane too many.
Size2_OffByOne(n) == n - Size1(n) + 1

\* Size2 = Size_ - Size1.
Size2(n) == n - Size1(n)

\* ------------------------------------------------------------------------
\* Horizontal reductions and their nested forms.  A value of shape 0 is a
\* scalar, of shape 1 an array of Size scalars, of shape 2 an array of Size
\* arrays of Size scalars; masks have the same shapes with boolean entries.
\* ------------------------------------------------------------------------

\* The binary operation of a reduction on two values of shape s (0 or 1),
\* lane by lane for arrays: + and * modulo 2^W, min, max, & and |.
Combine(op, k, s, x, y) ==
    LET f(u, v) == CASE op = "sum" -> LaneAdd(k, u, v)
                     [] op = "prod" -> LaneMul(k, u, v)
                     [] op = "min" -> IF v < u THEN v ELSE u
                     [] op = "max" -> IF v > u THEN v ELSE u
                     [] op = "all" -> u /\ v
                     [] OTHER -> u \/ v
    IN  IF s = 0 THEN f(x, y) ELSE [i \in Lanes |-> f(x[i], y[i])]

\* The reduction across the lanes i, i + 1, .., Size - 1 of x, whose lanes
\* have shape s, starting from acc.
RECURSIVE ReduceLoop(_, _, _, _, _, _)
ReduceLoop(op, k, s, x, acc, i) ==
    IF i >= Size
    THEN acc
    ELSE ReduceLoop(op, k, s, x, Combine(op, k, s, acc, coeff(x, i)), i + 1)

\* hsum(x), hprod(x), hmin(x), hmax(x), all(x), any(x) (op "sum", "prod",
\* "min", "max", "all", "any") of an array of shape s: the reduction across
\* its lanes, a value of shape s - 1.
horizontal(op, k, s, x) == ReduceLoop(op, k, s - 1, x, coeff(x, 0), 1)

\* count(x) of a mask of shape s: the number of true lanes, counted across
\* the lanes of x.  The counts are size_t values; they stay below 2^W here.
count(s, x) ==
    LET one(t) == IF t THEN 1 ELSE 0
    IN  horizontal("sum", "uint", s,
                   IF s = 1
                   THEN [i \in Lanes |-> one(x[i])]
                   ELSE [i \in Lanes |-> [j \in Lanes |-> one(x[i][j])]])

RECURSIVE hsum_nested_(_, _, _)
RECURSIVE hprod_nested_(_, _, _)
RECURSIVE hmin_nested_(_, _, _)
RECURSIVE hmax_nested_(_, _, _)
RECURSIVE all_nested_(_, _)
RECURSIVE any_nested_(_, _)
\* hsum_nested(y), hprod_nested(y), hmin_nested(y), hmax_nested(y),
\* all_nested(y), any_nested(y): y itself for a scalar, the member function
\* of y for an array.
nested(op, k, s, y) ==
    IF s = 0
    THEN y
    ELSE CASE op = "sum" -> hsum_nested_(k, s, y)
           [] op = "prod" -> hprod_nested_(k, s, y)
           [] op = "min" -> hmin_nested_(k, s, y)
           [] op = "max" -> hmax_nested_(k, s, y)
           [] op = "all" -> all_nested_(s, y)
           [] OTHER -> any_nested_(s, y)

\* Nested sum that adds the first lane once more.
hsum_nested_FirstTwice(k, s, x) ==
    nested("sum", k, s - 1,
           Combine("sum", k, s - 1, horizontal("sum", k, s, x), coeff(x, 0)))

\* hsum_nested_(): hsum_nested(hsum(derived())).
hsum_nested_(k, s, x) == nested("sum", k, s - 1, horizontal("sum", k, s, x))

\* hprod_nested_(): hprod_nested(hprod(derived())).
hprod_nested_(k, s, x) == nested("prod", k, s - 1, horizontal("prod", k, s, x))

\* hmin_nested_(): hmin_nested(hmin(derived())).
hmin_nested_(k, s, x) == nested("min", k, s - 1, horizontal("min", k, s, x))

\* hmax_nested_(): hmax_nested(hmax(derived())).
hmax_nested_(k, s, x) == nested("max", k, s - 1, horizontal("max", k, s, x))

\* all_nested_(): all_nested(all(derived())).
all_nested_(s, x) == nested("all", "uint", s - 1, horizontal("all", "uint", s, x))

\* any_nested_(): any_nested(any(derived())).
any_nested_(s, x) == nested("any", "uint", s - 1, horizontal("any", "uint", s, x))

\* none_nested_ that negates all_nested.
none_nested_NotAll(s, x) ==
    ~nested("all", "uint", s - 1, horizontal("all", "uint", s, x))

\* none_nested_(): !any_nested(any(derived())).
none_nested_(s, x) ==
    ~nested("any", "uint", s - 1, horizontal("any", "uint", s, x))

\* count_nested_(): hsum_nested(count(derived())).
count_nested_(s, x) == nested("sum", "uint", s - 1, count(s, x))

\* ------------------------------------------------------------------------
\* Transcendental functions: which code path produces each result lane.
\* Floating-point arithmetic is not evaluated; a result lane records the
\* path that produced it ("scalar": a call of the scalar function on the
\* lane's arguments, "approx": the polynomial or rational approximation),
\* the function and the lane's arguments.
\* ------------------------------------------------------------------------

\* if (Approx) { approximation on whole arrays } else { for (i < Size)
\* r.coeff(i) = fn(derived().coeff(i), ..) }.
TwoPaths(fn, ap, args) ==
    [i \in Lanes |->
        [by |-> IF ap THEN "approx" ELSE "scalar", fn |-> fn,
         args |-> [n \in DOMAIN args |-> coeff(args[n], i)]]]

\* erfi_(): Giles' approximation on whole arrays; the body has no test of
\* Approx.
erfi_(ap, v) ==
    [i \in Lanes |-> [by |-> "approx", fn |-> "erfi", args |-> <<coeff(v, i)>>]]

\* The functions with a body of the form of TwoPaths.
TwoPathFunctions ==
    {"sin", "cos", "sincos", "tan", "asin", "acos", "atan", "atan2", "exp",
     "log", "pow", "ldexp", "frexp", "sinh", "cosh", "sincosh", "tanh",
     "csch", "sech", "coth", "asinh", "acosh", "atanh", "erf"}

\* ------------------------------------------------------------------------
\* Floating-point lanes.  A floating scalar of W bits has the IEEE 754
\* binary layout: the sign bit, ExpBits exponent bits, MantBits mantissa
\* bits (8 and 23 for W = 32).  Comparisons are those of IEEE 754: false
\* when an operand is a NaN, -0 equal to +0.
\* ------------------------------------------------------------------------

ExpBits == W \div 2

MantBits == W - 1 - ExpBits

\* std::numeric_limits<Scalar>::infinity(): exponent all ones, mantissa 0.
FltInf == (2 ^ ExpBits - 1) * (2 ^ MantBits)

\* std::numeric_limits<Scalar>::max(): the pattern below infinity.
FltMax == FltInf - 1

\* Float(1): the biased exponent of 2^0, mantissa 0.
FltOne == (2 ^ (ExpBits - 1) - 1) * (2 ^ MantBits)

\* Float(.5e-1) and Float(1e-2): positive constants below one.
FltTwentieth == FltOne - 1

FltHundredth == FltOne \div 2

\* abs(x): the sign bit cleared.
abs(x) == x % NegZero

\* The pattern is a NaN: exponent all ones, mantissa not 0.
IsNaNPattern(x) == abs(x) > FltInf

\* The position of a pattern that is no NaN in the order of the values.
OrderKey(x) == IF x >= NegZero THEN -(x - NegZero) ELSE x

\* x < y and eq(x, y) on floating scalars.
FloatLess(x, y) ==
    ~IsNaNPattern(x) /\ ~IsNaNPattern(y) /\ OrderKey(x) < OrderKey(y)

FloatEq(x, y) ==
    ~IsNaNPattern(x) /\ ~IsNaNPattern(y) /\ OrderKey(x) = OrderKey(y)

\* detail::sign_mask(x): the sign bit of the pattern, every other bit 0.
sign_mask(x) == (x \div NegZero) * NegZero

\* isnan_(): !eq(derived(), derived()).
isnan_(v) == [i \in Lanes |-> ~FloatEq(v[i], v[i])]

\* isinf_(): eq(abs(derived()), infinity).
isinf_(v) == [i \in Lanes |-> FloatEq(abs(v[i]), FltInf)]

\* isfinite_(): abs(derived()) < std::numeric_limits<Scalar>::max().
isfinite_(v) == [i \in Lanes |-> FloatLess(abs(v[i]), FltMax)]

\* ------------------------------------------------------------------------
\* The approximate paths of asin_, acos_, log_, sin_, cos_, sincos_, sinh_,
\* cosh_ and sincosh_.  The polynomial arithmetic is not evaluated; a result
\* lane of the approximate path records, next to by, fn and args,
\*   value : the expression the lane's blend selects,
\*   ored  : the pattern OR'd into the selected value (asin_, acos_, log_),
\*   j, flip : the rounded quadrant and the sign pattern XOR'd into the
\*             value (sin_, cos_, sincos_).
\* ------------------------------------------------------------------------

\* asin_ with invalidMask = x >= 1.
asin_InvalidFromOne(ap, v) ==
    IF ~ap
    THEN TwoPaths("asin", ap, <<v>>)
    ELSE [i \in Lanes |->
             [by |-> "approx", fn |-> "asin", args |-> <<v[i]>>,
              value |-> IF FloatLess(FltTwentieth, abs(v[i]))
                        THEN "minimax" ELSE "series",
              negate |-> FloatLess(v[i], 0),
              ored |-> IF ~FloatLess(abs(v[i]), FltOne) THEN Pow2W - 1 ELSE 0]]

\* asin_(): x = abs(x_), invalidMask = x > 1, negate = x_ < 0,
\* r = select(x > .5e-1, t - (2 & negate) * t, x_ + x_^3 / 6) | invalidMask.
asin_(ap, v) ==
    IF ~ap
    THEN TwoPaths("asin", ap, <<v>>)
    ELSE [i \in Lanes |->
             LET x_          == v[i]
                 x           == abs(x_)
                 invalidMask == FloatLess(FltOne, x)
                 negate      == FloatLess(x_, 0)
             IN  [by |-> "approx", fn |-> "asin", args |-> <<x_>>,
                  value |-> IF FloatLess(FltTwentieth, x)
                            THEN "minimax" ELSE "series",
                  negate |-> negate,
                  ored |-> IF invalidMask THEN Pow2W - 1 ELSE 0]]

\* acos_(): x = abs(derived()), invalidMask = x > 1, negate = derived() < 0,
\* r = (t + (pi & negate)) | invalidMask.
acos_(ap, v) ==
    IF ~ap
    THEN TwoPaths("acos", ap, <<v>>)
    ELSE [i \in Lanes |->
             LET x           == abs(v[i])
                 invalidMask == FloatLess(FltOne, x)
                 negate      == FloatLess(v[i], 0)
             IN  [by |-> "approx", fn |-> "acos", args |-> <<v[i]>>,
                  value |-> "minimax",
                  negate |-> negate,
                  ored |-> IF invalidMask THEN Pow2W - 1 ELSE 0]]

\* log_ with validMask = x > 0.
log_ZeroInvalid(ap, v) ==
    IF ~ap
    THEN TwoPaths("log", ap, <<v>>)
    ELSE [i \in Lanes |->
             [by |-> "approx", fn |-> "log", args |-> <<v[i]>>,
              value |-> IF FloatEq(v[i], FltInf) THEN "inf" ELSE "z",
              ored |-> IF FloatEq(v[i], FltInf) \/ FloatLess(0, v[i])
                       THEN 0 ELSE Pow2W - 1]]

\* log_(): validMask = x >= 0,
\* r = select(eq(derived(), inf), inf, z | ~validMask).
log_(ap, v) ==
    IF ~ap
    THEN TwoPaths("log", ap, <<v>>)
    ELSE [i \in Lanes |->
             LET x         == v[i]
                 validMask == FloatLess(0, x) \/ FloatEq(0, x)
             IN  [by |-> "approx", fn |-> "log", args |-> <<x>>,
                  value |-> IF FloatEq(x, FltInf) THEN "inf" ELSE "z",
                  ored |-> IF FloatEq(x, FltInf) THEN 0
                           ELSE IF validMask THEN 0 ELSE Pow2W - 1]]

\* sli<29>(j) on the W-bit integer lanes of the model: the shift that moves
\* bit 2 of j into the sign bit.
SignShift == W - 3

\* sin_(): conv is the integer array IntArray(x * Float(4 / pi)) of
\* x = abs(derived()).  j = (j + 1) & ~1, sign = sign_mask(sli<29>(j) ^
\* derived()), polymask = eq(j & 2, 0), r = select(polymask, s, c) ^ sign.
sin_(ap, v, conv) ==
    IF ~ap
    THEN TwoPaths("sin", ap, <<v>>)
    ELSE [i \in Lanes |->
             LET j        == LaneAnd("int", LaneAdd("int", conv[i], 1), -2)
                 sign     == sign_mask(BitXorN(LaneShl(ToUnsigned(j), SignShift),
                                               v[i], W))
                 polymask == LaneAnd("int", j, 2) = 0
             IN  [by |-> "approx", fn |-> "sin", args |-> <<v[i]>>,
                  value |-> IF polymask THEN "s" ELSE "c",
                  j |-> j, flip |-> sign]]

\* cos_(): sign = sign_mask(sli<29>(~(j - 2))),
\* r = select(polymask, c, s) ^ sign.
cos_(ap, v, conv) ==
    IF ~ap
    THEN TwoPaths("cos", ap, <<v>>)
    ELSE [i \in Lanes |->
             LET j        == LaneAnd("int", LaneAdd("int", conv[i], 1), -2)
                 sign     == sign_mask(LaneShl(
                                 LaneNotU(ToUnsigned(LaneSub("int", j, 2))),
                                 SignShift))
                 polymask == LaneAnd("int", j, 2) = 0
             IN  [by |-> "approx", fn |-> "cos", args |-> <<v[i]>>,
                  value |-> IF polymask THEN "c" ELSE "s",
                  j |-> j, flip |-> sign]]

\* sincos_ with the two blends selecting the same polynomial.
sincos_SameBlend(ap, v, conv) ==
    <<sin_(ap, v, conv),
      IF ap
      THEN [i \in Lanes |->
               [cos_(ap, v, conv)[i] EXCEPT !.value = sin_(ap, v, conv)[i].value]]
      ELSE cos_(ap, v, conv)>>

\* sincos_(): the pair (s_out, c_out).  On the approximate path
\* sign_sin = sign_mask(sli<29>(j) ^ derived()),
\* sign_cos = sign_mask(sli<29>(~(j - 2))),
\* s_out = select(polymask, s, c) ^ sign_sin,
\* c_out = select(polymask, c, s) ^ sign_cos; on the scalar path
\* c_out.coeff(i) = cos(coeff(i)), s_out.coeff(i) = sin(coeff(i)).
sincos_(ap, v, conv) ==
    IF ~ap
    THEN <<[i \in Lanes |->
               [by |-> "scalar", fn |-> "sin", args |-> <<coeff(v, i)>>]],
           [i \in Lanes |->
               [by |-> "scalar", fn |-> "cos", args |-> <<coeff(v, i)>>]]>>
    ELSE LET j == [i \in Lanes |->
                      LaneAnd("int", LaneAdd("int", conv[i], 1), -2)]
             sign_sin == [i \in Lanes |->
                             sign_mask(BitXorN(LaneShl(ToUnsigned(j[i]), SignShift),
                                               v[i], W))]
             sign_cos == [i \in Lanes |->
                             sign_mask(LaneShl(
                                 LaneNotU(ToUnsigned(LaneSub("int", j[i], 2))),
                                 SignShift))]
             polymask == [i \in Lanes |-> LaneAnd("int", j[i], 2) = 0]
         IN  <<[i \in Lanes |->
                   [by |-> "approx", fn |-> "sin", args |-> <<v[i]>>,
                    value |-> IF polymask[i] THEN "s" ELSE "c",
                    j |-> j[i], flip |-> sign_sin[i]]],
               [i \in Lanes |->
                   [by |-> "approx", fn |-> "cos", args |-> <<v[i]>>,
                    value |-> IF polymask[i] THEN "c" ELSE "s",
                    j |-> j[i], flip |-> sign_cos[i]]]>>

\* Expressions of the hyperbolic functions, in postfix notation.  A product
\* is written with its shorter operand first: the floating product does not
\* depend on the order of its operands.
FMul(x, y) == IF Len(x) <= Len(y) THEN x \o y \o <<"mul">> ELSE y \o x \o <<"mul">>

\* rcp_(): expr_t<Derived>(Scalar(1)) / derived().
rcp_(x) == <<"1">> \o x \o <<"div">>

\* sinh_(): exp0 = exp(derived()), exp1 = Float(1) / exp0,
\* r = select(abs(derived()) < 1e-2, derived(), (exp0 - exp1) * 0.5).
sinh_(ap, v) ==
    IF ~ap
    THEN TwoPaths("sinh", ap, <<v>>)
    ELSE [i \in Lanes |->
             LET exp0 == <<"x", "exp">>
                 exp1 == <<"1">> \o exp0 \o <<"div">>
             IN  [by |-> "approx", fn |-> "sinh", args |-> <<v[i]>>,
                  value |-> IF FloatLess(abs(v[i]), FltHundredth)
                            THEN <<"x">>
                            ELSE FMul(exp0 \o exp1 \o <<"sub">>, <<"0.5">>)]]

\* cosh_(): r = (exp0 + exp1) * .5f.
cosh_(ap, v) ==
    IF ~ap
    THEN TwoPaths("cosh", ap, <<v>>)
    ELSE [i \in Lanes |->
             LET exp0 == <<"x", "exp">>
                 exp1 == <<"1">> \o exp0 \o <<"div">>
             IN  [by |-> "approx", fn |-> "cosh", args |-> <<v[i]>>,
                  value |-> FMul(exp0 \o exp1 \o <<"add">>, <<"0.5">>)]]

\* sincosh_(): exp0 = exp(derived()), exp1 = rcp(exp0), half = .5,
\* s_out = select(abs(derived()) < 1e-2, derived(), half * (exp0 - exp1)),
\* c_out = half * (exp0 + exp1); rcp is the fallback rcp_.
sincosh_(ap, v) ==
    IF ~ap
    THEN <<[i \in Lanes |->
               [by |-> "scalar", fn |-> "sinh", args |-> <<coeff(v, i)>>]],
           [i \in Lanes |->
               [by |-> "scalar", fn |-> "cosh", args |-> <<coeff(v, i)>>]]>>
    ELSE LET exp0 == <<"x", "exp">>
             exp1 == rcp_(exp0)
             half == <<"0.5">>
         IN  <<[i \in Lanes |->
                   [by |-> "approx", fn |-> "sinh", args |-> <<v[i]>>,
                    value |-> IF FloatLess(abs(v[i]), FltHundredth)
                              THEN <<"x">>
                              ELSE FMul(half, exp0 \o exp1 \o <<"sub">>)]],
               [i \in Lanes |->
                   [by |-> "approx", fn |-> "cosh", args |-> <<v[i]>>,
                    value |-> FMul(half, exp0 \o exp1 \o <<"add">>)]]>>

\* The tuple of arrays returned by the member function fn_ on the argument
\* arrays args: sincos_, sincosh_ and frexp_ return a pair, filled lane by
\* lane by two scalar calls (one call of frexp) on the scalar path.  conv is
\* the integer array the conversion in sin_, cos_ and sincos_ yields.
transcendental(fn, ap, args, conv) ==
    CASE fn = "sincos" -> sincos_(ap, args[1], conv)
      [] fn = "sin" -> <<sin_(ap, args[1], conv)>>
      [] fn = "cos" -> <<cos_(ap, args[1], conv)>>
      [] fn = "sincosh" -> sincosh_(ap, args[1])
      [] fn = "sinh" -> <<sinh_(ap, args[1])>>
      [] fn = "cosh" -> <<cosh_(ap, args[1])>>
      [] fn = "asin" -> <<asin_(ap, args[1])>>
      [] fn = "acos" -> <<acos_(ap, args[1])>>
      [] fn = "log" -> <<log_(ap, args[1])>>
      [] fn = "isnan" -> <<isnan_(args[1])>>
      [] fn = "isinf" -> <<isinf_(args[1])>>
      [] fn = "isfinite" -> <<isfinite_(args[1])>>
      [] fn = "frexp" -> <<TwoPaths("frexp", ap, args), TwoPaths("frexp", ap, args)>>
      [] fn = "erfi" -> <<erfi_(ap, args[1])>>
      [] OTHER -> <<TwoPaths(fn, ap, args)>>

\* ------------------------------------------------------------------------
\* Runs of these fallbacks: one call on freshly constructed operands a, b
\* and e (or on the mask m), the result is ret; a shuffle may be followed
\* by a shuffle of its result.  Integer arrays take the fused, shuffle,
\* resize and reduction calls, floating-point arrays the transcendental
\* functions and the tests isnan_, isinf_ and isfinite_.
\* ------------------------------------------------------------------------

OpsStep(rec, result, er) ==
    /\ last = NoOp
    /\ ret' = result
    /\ err' = er
    /\ last' = rec
    /\ UNCHANGED <<kind, rangeCheck, approx, shape, mem, a, b, e, m, proxy, written, ub, nops>>

Fused(name) ==
    /\ kind \in IntKinds
    /\ shape = 1
    /\ OpsStep([op |-> name, src |-> a],
               CASE name = "fmadd" -> fmadd_(kind, a, b, e)
                 [] name = "fmsub" -> fmsub_(kind, a, b, e)
                 [] name = "fmaddsub" -> fmaddsub_(kind, a, b, e)
                 [] OTHER -> fmsubadd_(kind, a, b, e),
               NoError)

Shuffle(I) ==
    /\ kind \in IntKinds
    /\ shape = 1
    /\ OpsStep([op |-> "shuffle", I |-> I, src |-> a], shuffle_(a, I), NoError)

\* shuffle_ called on the vector the previous shuffle_ returned.
ShuffleAgain(J) ==
    /\ last.op = "shuffle"
    /\ ret' = shuffle_(ret, J)
    /\ last' = [op |-> "shuffle2", I |-> last.I, J |-> J, src |-> last.src,
                mid |-> ret]
    /\ UNCHANGED <<kind, rangeCheck, approx, shape, mem, a, b, e, m, proxy, err, written, ub, nops>>

Resize(n) ==
    /\ kind \in IntKinds
    /\ shape = 1
    /\ OpsStep([op |-> "resize", n |-> n, src |-> a], ret, resize_(a, n))

\* The decomposition of an array type with Size_ = n.
Decompose(n) ==
    /\ kind \in IntKinds
    /\ shape = 1
    /\ OpsStep([op |-> "decompose", n |-> n, src |-> a],
               [size1 |-> Size1(n), size2 |-> Size2(n)], NoError)

Reduction(name) ==
    /\ kind \in IntKinds
    /\ OpsStep([op |-> name, src |-> a],
               CASE name = "hsum_nested" -> hsum_nested_(kind, shape, a)
                 [] name = "hprod_nested" -> hprod_nested_(kind, shape, a)
                 [] name = "hmin_nested" -> hmin_nested_(kind, shape, a)
                 [] name = "hmax_nested" -> hmax_nested_(kind, shape, a)
                 [] name = "all_nested" -> all_nested_(shape, m)
                 [] name = "any_nested" -> any_nested_(shape, m)
                 [] name = "none_nested" -> none_nested_(shape, m)
                 [] OTHER -> count_nested_(shape, m),
               NoError)

\* A call of fn_; atan2_, ldexp_ and pow_ take a second array.
Call(fn) ==
    /\ kind = "float"
    /\ LET args == IF fn \in {"atan2", "ldexp", "pow"} THEN <<a, b>> ELSE <<a>>
       IN  OpsStep([op |-> fn, args |-> args],
                   transcendental(fn, approx, args, e), NoError)

\* The operands of a run are
\*  - integer arrays a (distinct lanes counted up from all ones minus one,
\*    which wrap, or counted up from 2) and b, e (every lane 3, or every
\*    lane the sign bit pattern plus one);
\*  - an integer value a of shape 1 or 2 with entries 1, 3 and all ones
\*    minus one, or a mask m of shape 1 or 2;
\*  - floating-point arrays a (lane 0: zero, the least positive value, one,
\*    the value above one, the largest finite value, infinity, a NaN and
\*    their negatives; the other lanes: one, or minus the largest finite
\*    value) and b (every lane 1, or lanes counted up from the sign bit),
\*    with Approx true or false.  Approx is accepted for single precision
\*    only; a double precision array takes the paths of Approx = false.
\*    e holds what the conversion IntArray(abs(a) * Float(4 / pi)) of sin_,
\*    cos_ and sincos_ yields: the product is not evaluated, a lane is 0, 1,
\*    3 or 5, equal lanes of a having equal conversions.
InitOps ==
    /\ rangeCheck = TRUE
    /\ mem = <<>>
    /\ \/ /\ kind \in IntKinds /\ approx = FALSE /\ shape = 1
          /\ a \in {[i \in Lanes |-> FromPattern(kind, (Pow2W - 2 + i) % Pow2W)],
                    [i \in Lanes |-> FromPattern(kind, 2 + i)]}
          /\ b \in {Broadcast(3), Broadcast(FromPattern(kind, 2 ^ (W - 1) + 1))}
          /\ e \in {Broadcast(3), Broadcast(FromPattern(kind, 2 ^ (W - 1) + 1))}
          /\ m = AllTrue
       \/ /\ kind \in IntKinds /\ approx = FALSE /\ shape = 1
          /\ \/ a \in [Lanes -> {FromPattern(kind, p) : p \in {1, 3, Pow2W - 2}}]
                /\ m = AllTrue
             \/ a = Broadcast(1) /\ m \in [Lanes -> BOOLEAN]
          /\ b = a /\ e = a
       \/ /\ kind \in IntKinds /\ approx = FALSE /\ shape = 2
          /\ \/ a \in [Lanes -> [Lanes -> {FromPattern(kind, p) : p \in {1, 3, Pow2W - 2}}]]
                /\ m = Broadcast(AllTrue)
             \/ a = Broadcast(Broadcast(1)) /\ m \in [Lanes -> [Lanes -> BOOLEAN]]
          /\ b = a /\ e = a
       \/ /\ kind = "float" /\ approx \in BOOLEAN /\ shape = 1
          /\ a \in {[i \in Lanes |-> IF i = 0 THEN x + sg ELSE y] :
                       x \in {0, 1, FltOne, FltOne + 1, FltMax, FltInf, FltInf + 1},
                       sg \in {0, NegZero},
                       y \in {FltOne, NegZero + FltMax}}
          /\ b \in {Broadcast(1), [i \in Lanes |-> (2 ^ (W - 1) + i) % Pow2W]}
          /\ e \in [Lanes -> {0, 1, 3, 5}]
          /\ \A i, j \in Lanes : a[i] = a[j] => e[i] = e[j]
          /\ m = AllTrue
    /\ proxy = NoProxy
    /\ err = NoError
    /\ ret = 0
    /\ last = NoOp
    /\ written = a
    /\ ub = FALSE
    /\ nops = 0

NextOps ==
    \/ \E name \in {"fmadd", "fmsub", "fmaddsub", "fmsubadd"} : Fused(name)
    \/ \E I \in [Lanes -> Lanes] : Shuffle(I)
    \/ \E J \in [Lanes -> Lanes] : ShuffleAgain(J)
    \/ \E n \in 0 .. (Size + 1) : Resize(n)
    \/ \E n \in 1 .. MaxN : Decompose(n)
    \/ \E name \in {"hsum_nested", "hprod_nested", "hmin_nested", "hmax_nested",
                    "all_nested", "any_nested", "none_nested", "count_nested"} :
           Reduction(name)
    \/ \E fn \in TwoPathFunctions \cup {"erfi", "isnan", "isinf", "isfinite"} :
           Call(fn)

SpecOps == InitOps /\ [][NextOps]_vars

\* ------------------------------------------------------------------------
\* C13: shuffle
\* ------------------------------------------------------------------------

\* The identity index list 0, 1, .., Size - 1.
IdentityList == [k \in Lanes |-> k]

\* I is a permutation of the lanes.
IsPermutation(I) == \A k \in Lanes : \E j \in Lanes : I[j] = k

\* J undoes I: J[I[k]] = k for every lane.
IsInverse(I, J) == \A k \in Lanes : J[I[k]] = k

\* C13: shuffle_<I...>() returns a vector whose lane k equals v[I[k]] for
\* every k, indices may repeat; the source vector is unchanged; the identity
\* index list returns v; shuffling by a permutation and then by its inverse
\* returns v.
C13_Shuffle ==
    /\ last.op = "shuffle" =>
          /\ \A k \in Lanes : ret[k] = a[last.I[k]]
          /\ a = last.src
          /\ last.I = IdentityList => ret = a
    /\ last.op = "shuffle2" =>
          /\ \A k \in Lanes : ret[k] = last.mid[last.J[k]]
          /\ a = last.src
          /\ (IsPermutation(last.I) /\ IsInverse(last.I, last.J)) => ret = a

\* A shuffle by a non-identity permutation of distinct lanes followed by the
\* shuffle by its inverse.
C13_Witness ==
    /\ last.op = "shuffle2"
    /\ IsPermutation(last.I)
    /\ IsInverse(last.I, last.J)
    /\ last.I # IdentityList
    /\ last.mid # a
    /\ ret = a

\* A shuffle whose index list repeats an index.
C13_WitnessRepeat ==
    /\ last.op = "shuffle"
    /\ ~IsPermutation(last.I)
    /\ \A k \in Lanes : ret[k] = a[last.I[k]]
    /\ ret # a

\* ------------------------------------------------------------------------
\* C14, C15: nested reductions
\* ------------------------------------------------------------------------

\* The scalar entries of a value of shape s, as a sequence in row-major
\* order (inner lanes first).
Entries(s, x) ==
    IF s = 1
    THEN [n \in 1 .. Size |-> x[n - 1]]
    ELSE [n \in 1 .. (Size * Size) |-> x[(n - 1) \div Size][(n - 1) % Size]]

\* The sum of the integers of a sequence.
RECURSIVE SeqSum(_)
SeqSum(q) == IF q = <<>> THEN 0 ELSE Head(q) + SeqSum(Tail(q))

\* The product modulo 2^W of the bit patterns of a sequence.
RECURSIVE SeqProd(_)
SeqProd(q) == IF q = <<>> THEN 1 ELSE (ToUnsigned(Head(q)) * SeqProd(Tail(q))) % Pow2W

\* x is the least (greatest) entry of the sequence q.
IsMinOf(x, q) == (\E n \in DOMAIN q : q[n] = x) /\ (\A n \in DOMAIN q : x <= q[n])

IsMaxOf(x, q) == (\E n \in DOMAIN q : q[n] = x) /\ (\A n \in DOMAIN q : x >= q[n])

\* C14: for integer entries hsum_nested_ equals the sum (modulo 2^W) of all
\* scalar entries at every level, hprod_nested_ their product, hmin_nested_
\* their minimum and hmax_nested_ their maximum; for a one-level vector
\* they equal hsum, hprod, hmin and hmax of its lanes.
C14_NestedReductions ==
    /\ last.op = "hsum_nested" =>
          /\ ret = Wrap(kind, SeqSum(Entries(shape, a)))
          /\ shape = 1 => ret = horizontal("sum", kind, 1, a)
    /\ last.op = "hprod_nested" =>
          /\ ret = FromPattern(kind, SeqProd(Entries(shape, a)))
          /\ shape = 1 => ret = horizontal("prod", kind, 1, a)
    /\ last.op = "hmin_nested" =>
          /\ IsMinOf(ret, Entries(shape, a))
          /\ shape = 1 => ret = horizontal("min", kind, 1, a)
    /\ last.op = "hmax_nested" =>
          /\ IsMaxOf(ret, Entries(shape, a))
          /\ shape = 1 => ret = horizontal("max", kind, 1, a)

\* The nested sum of an array of arrays whose entries differ and whose sum
\* wraps.
C14_Witness ==
    /\ last.op = "hsum_nested"
    /\ shape = 2
    /\ a[0][0] # a[0][1]
    /\ a[0] # a[1]
    /\ SeqSum(Entries(shape, a)) >= Pow2W
    /\ ret = Wrap(kind, SeqSum(Entries(shape, a)))

\* The number of true entries of a sequence of booleans.
RECURSIVE TrueCount(_)
TrueCount(q) ==
    IF q = <<>> THEN 0 ELSE (IF Head(q) THEN 1 ELSE 0) + TrueCount(Tail(q))

\* The mask entries of the reduced mask, and their number.
MaskEntries == Entries(shape, m)

TotalEntries == Len(MaskEntries)

\* C15: all_nested_ is true iff every scalar mask entry is true, any_nested_
\* iff at least one is true, none_nested_ iff none is true (the negation of
\* any_nested_), and count_nested_ is the number of true entries, so it is 0
\* iff none_nested_ and the total entry count iff all_nested_.
C15_BooleanReductions ==
    /\ last.op = "all_nested" =>
          ret = (\A n \in DOMAIN MaskEntries : MaskEntries[n])
    /\ last.op = "any_nested" =>
          ret = (\E n \in DOMAIN MaskEntries : MaskEntries[n])
    /\ last.op = "none_nested" =>
          /\ ret = (\A n \in DOMAIN MaskEntries : ~MaskEntries[n])
          /\ ret = ~any_nested_(shape, m)
    /\ last.op = "count_nested" =>
          /\ ret = TrueCount(MaskEntries)
          /\ (ret = 0) = none_nested_(shape, m)
          /\ (ret = TotalEntries) = all_nested_(shape, m)

\* none_nested_ of an array of masks with one true entry in the last inner
\* mask only.
C15_Witness ==
    /\ last.op = "none_nested"
    /\ shape = 2
    /\ TrueCount(MaskEntries) = 1
    /\ m[Size - 1][Size - 1]
    /\ ret = FALSE

\* count_nested_ of an array of masks with some but not all entries true in
\* every inner mask.
C15_WitnessCount ==
    /\ last.op = "count_nested"
    /\ shape = 2
    /\ \A i \in Lanes : (\E j \in Lanes : m[i][j]) /\ (\E j \in Lanes : ~m[i][j])
    /\ ret = TrueCount(MaskEntries)
    /\ ret > 1

\* ------------------------------------------------------------------------
\* C16 - C19: fused multiply-add variants, resize, size decomposition
\* ------------------------------------------------------------------------

\* a[i] * b[i] + c[i] and a[i] * b[i] - c[i] in W-bit integer arithmetic.
MulAddAt(i) == Wrap(kind, a[i] * b[i] + e[i])

MulSubAt(i) == Wrap(kind, a[i] * b[i] - e[i])

\* C16: with operands a, b, c of integer lanes, fmaddsub_(b, c) yields
\* a[i]*b[i] - c[i] in every even lane i and a[i]*b[i] + c[i] in every odd
\* lane, fmsubadd_(b, c) yields a[i]*b[i] + c[i] in even and a[i]*b[i] - c[i]
\* in odd lanes, fmadd_ and fmsub_ yield a*b + c and a*b - c in every lane.
C16_FusedVariants ==
    /\ last.op = "fmaddsub" =>
          \A i \in Lanes :
              ret[i] = IF i % 2 = 0 THEN MulSubAt(i) ELSE MulAddAt(i)
    /\ last.op = "fmsubadd" =>
          \A i \in Lanes :
              ret[i] = IF i % 2 = 0 THEN MulAddAt(i) ELSE MulSubAt(i)
    /\ last.op = "fmadd" => \A i \in Lanes : ret[i] = MulAddAt(i)
    /\ last.op = "fmsub" => \A i \in Lanes : ret[i] = MulSubAt(i)

\* fmaddsub_ on operands for which the sum and the difference differ in an
\* even and in an odd lane and the product wraps.
C16_Witness ==
    /\ last.op = "fmaddsub"
    /\ \A i \in Lanes : MulAddAt(i) # MulSubAt(i)
    /\ \E i \in Lanes : Pattern(kind, a[i]) * Pattern(kind, b[i]) >= Pow2W
    /\ ret[0] = MulSubAt(0)
    /\ ret[1] = MulAddAt(1)

\* C17: resize_(n) fails with a length error if and only if n differs from
\* Size, resize_(Size) succeeds, and in both outcomes the size and every
\* lane of the vector are unchanged.
C17_Resize ==
    last.op = "resize" =>
        /\ (err = LengthError) = (last.n # Size)
        /\ (err = NoError) = (last.n = Size)
        /\ size(a) = Size
        /\ a = last.src

\* A resize_ to one lane more than Size, which fails.
C17_Witness ==
    /\ last.op = "resize"
    /\ last.n = Size + 1
    /\ err = LengthError
    /\ a = last.src

\* A resize_ to Size, which succeeds.
C17_WitnessSame ==
    /\ last.op = "resize"
    /\ last.n = Size
    /\ err = NoError

\* x is a power of two.
IsPow2(x) == \E j \in 0 .. MaxN : x = 2 ^ j

\* C18: for every lane count N > 0, Size1(N) is a power of two,
\* Size1(N) <= N, Size2(N) >= 0 and Size1(N) + Size2(N) = N.
C18_SizeDecomposition ==
    last.op = "decompose" =>
        /\ IsPow2(ret.size1)
        /\ ret.size1 <= last.n
        /\ ret.size2 >= 0
        /\ ret.size1 + ret.size2 = last.n

\* The decomposition of a lane count that is not a power of two and whose
\* remainder is not one either.
C18_Witness ==
    /\ last.op = "decompose"
    /\ ~IsPow2(last.n)
    /\ ~IsPow2(ret.size2)
    /\ ret.size2 > 0
    /\ ret.size1 + ret.size2 = last.n

Transcendentals == TwoPathFunctions \cup {"erfi"}

\* Every lane of every returned array comes from the path Approx selects,
\* and on the scalar path lane i is a call of the scalar function on lane i
\* of the arguments.
PathFollowsApprox ==
    \A n \in DOMAIN ret : \A i \in Lanes :
        /\ ret[n][i].by = (IF approx THEN "approx" ELSE "scalar")
        /\ ~approx => ret[n][i].args = [j \in DOMAIN last.args |-> last.args[j][i]]

\* C20: every transcendental function has two code paths selected by
\* Approx, and with Approx false each result lane is produced by a
\* lane-wise call of the scalar implementation, never by the approximation.
C20_ScalarPathWhenNotApprox ==
    last.op \in Transcendentals => PathFollowsApprox

\* The same for every function of the list except erfi.
TwoPathsExceptErfi ==
    last.op \in TwoPathFunctions => PathFollowsApprox

\* A call of a two-argument function or of a pair-valued function on the
\* scalar path.
ScalarPathTaken ==
    /\ last.op \in {"atan2", "sincos"}
    /\ ~approx
    /\ PathFollowsApprox
    /\ a[0] # a[1]

\* ------------------------------------------------------------------------
\* C25: isnan_, isinf_, isfinite_
\* ------------------------------------------------------------------------

\* The floating pattern is a finite value: its exponent is not all ones.
FinitePattern(x) == abs(x) < FltInf

\* The number of the three tests that are true for lane i of a.
TestsTrue(i) ==
    Cardinality({t \in {"isnan", "isinf", "isfinite"} :
                    transcendental(t, approx, <<a>>, e)[1][i]})

\* C25: for every floating lane value x (every finite value up to and
\* including the largest finite magnitude, +/-infinity, NaN) the isfinite_
\* lane is true if and only if x is neither a NaN nor +/-infinity, and
\* exactly one of isnan_, isinf_ and isfinite_ is true for the lane.
C25_FiniteClassification ==
    last.op \in {"isnan", "isinf", "isfinite"} =>
        \A i \in Lanes :
            /\ last.op = "isfinite" => (ret[1][i] <=> FinitePattern(a[i]))
            /\ TestsTrue(i) = 1

\* The same with the lanes of largest finite magnitude left out; isnan_ and
\* isinf_ are the tests for NaN and for +/-infinity on every lane.
C25_ExceptLargestFinite ==
    last.op \in {"isnan", "isinf", "isfinite"} =>
        \A i \in Lanes :
            /\ last.op = "isnan" => (ret[1][i] <=> IsNaNPattern(a[i]))
            /\ last.op = "isinf" => (ret[1][i] <=> abs(a[i]) = FltInf)
            /\ abs(a[i]) # FltMax =>
                  /\ last.op = "isfinite" => (ret[1][i] <=> FinitePattern(a[i]))
                  /\ TestsTrue(i) = 1

\* isfinite_ on a vector whose lane 0 is the largest finite value: the lane
\* is reported as not finite and none of the three tests is true for it.
C25_LargestFiniteRejected ==
    /\ last.op = "isfinite"
    /\ a[0] = FltMax
    /\ FinitePattern(a[0])
    /\ ~ret[1][0]
    /\ TestsTrue(0) = 0

\* ------------------------------------------------------------------------
\* C21, C22: invalid inputs of the approximate asin_, acos_ and log_
\* ------------------------------------------------------------------------

\* The bit pattern of a result lane when the unevaluated arithmetic of the
\* lane yields the pattern p.
ResultBits(lane, p) ==
    IF lane.value = "inf" THEN FltInf ELSE BitOrN(p, lane.ored, W)

\* C21: in approximate mode, every lane of asin_ and acos_ with |x| > 1 has
\* all bits set whatever the polynomial yields, the lanes with |x| <= 1 of
\* the same vector are the polynomial's value with nothing OR'd in, and no
\* error is raised.
C21_AsinAcosInvalid ==
    (approx /\ last.op \in {"asin", "acos"}) =>
        /\ err = NoError
        /\ \A i \in Lanes : \A p \in 0 .. (Pow2W - 1) :
              /\ (abs(a[i]) > FltOne /\ abs(a[i]) <= FltInf)
                    => ResultBits(ret[1][i], p) = Pow2W - 1
              /\ abs(a[i]) <= FltOne => ResultBits(ret[1][i], p) = p

\* An approximate asin_ of a vector with lane 0 above one and lane 1 equal
\* to one: lane 0 is flagged, lane 1 is not.
C21_Witness ==
    /\ approx
    /\ last.op = "asin"
    /\ a[0] = FltOne + 1
    /\ a[1] = FltOne
    /\ ret[1][0].ored = Pow2W - 1
    /\ ret[1][1].ored = 0
    /\ ResultBits(ret[1][0], 0) = Pow2W - 1
    /\ ResultBits(ret[1][1], FltOne) = FltOne
    /\ err = NoError

\* An approximate acos_ of a vector whose lanes are all below minus one.
C21_WitnessAcos ==
    /\ approx
    /\ last.op = "acos"
    /\ a[0] = NegZero + FltInf
    /\ a[1] = NegZero + FltMax
    /\ \A i \in {0, 1} : ResultBits(ret[1][i], 0) = Pow2W - 1

\* C22: in approximate mode, every lane of log_ whose input is negative or
\* a NaN has all bits set (a NaN) whatever the polynomial yields, a lane
\* equal to +infinity is +infinity, a lane with a valid input (zero or
\* positive and finite) is the polynomial's value with nothing OR'd in, and
\* no error is raised.
C22_LogInvalid ==
    (approx /\ last.op = "log") =>
        /\ err = NoError
        /\ IsNaNPattern(Pow2W - 1)
        /\ \A i \in Lanes : \A p \in 0 .. (Pow2W - 1) :
              /\ (IsNaNPattern(a[i]) \/ a[i] > NegZero)
                    => ResultBits(ret[1][i], p) = Pow2W - 1
              /\ a[i] = FltInf => ResultBits(ret[1][i], p) = FltInf
              /\ (a[i] < FltInf \/ a[i] = NegZero)
                    => ResultBits(ret[1][i], p) = p

\* An approximate log_ of a vector with a negative lane 0 and a valid
\* lane 1.
C22_Witness ==
    /\ approx
    /\ last.op = "log"
    /\ a[0] = NegZero + FltOne
    /\ a[1] = FltOne
    /\ ResultBits(ret[1][0], FltOne) = Pow2W - 1
    /\ ResultBits(ret[1][1], FltOne) = FltOne
    /\ err = NoError

\* An approximate log_ of +infinity.
C22_WitnessInf ==
    /\ approx
    /\ last.op = "log"
    /\ a[0] = FltInf
    /\ ResultBits(ret[1][0], 0) = FltInf

\* ------------------------------------------------------------------------
\* C30: sincos_ and sincosh_ against the separate functions
\* ------------------------------------------------------------------------

C30_WitnessSincosh ==
    /\ approx
    /\ last.op = "sincosh"
    /\ a[0] = FltOne
    /\ ret[1][0].value # <<"x">>
    /\ ret[1] = sinh_(approx, a)
    /\ ret[2] = cosh_(approx, a)

=============================================================================
